---- MODULE Spec2Model ----
(***************************************************************************)
(* A model of the export code of catalog-api (django/sierra):              *)
(*   export/exporter.py        Exporter, ToSolrExporter, CompoundMixin,    *)
(*                             AttachedRecordExporter                      *)
(*   blacklight/exporters.py   BaseSolrMarcBibsToSolr,                     *)
(*                             BaseNonSolrmarcBibsToSolr                   *)
(*   blacklight/marcfieldset   Field, Fieldset and the filters             *)
(*   blacklight/sierrabibstractor.py, record_converters.py,                *)
(*   field_converters.py       bib extraction and the converter tables     *)
(* Each part of the program has its own variables, its own initial         *)
(* predicate and its own specification; the variables of the other parts   *)
(* stay at their idle values.                                              *)
(***************************************************************************)
EXTENDS Integers, Sequences, FiniteSets, TLC

VARIABLES
    exp_records,    \* the batch handed to export_records / delete_records
    exp_pc,         \* "ready", then the method that ran
    exp_cls,        \* the exporter class whose method ran
    exp_log,        \* what self.log received, in order
    exp_sink,       \* the calls the sink client (pysolr) received, in order
    exp_ret         \* how the method ended: returned or raised

expVars == <<exp_records, exp_pc, exp_cls, exp_log, exp_sink, exp_ret>>

VARIABLES
    job_cls,        \* the exporter class of the job
    job_chunks,     \* the job's chunks: kind ("rec" or "del"), state, sink calls to come
    job_trace,      \* the sink calls of the whole job, in order
    job_final       \* how many times final_callback has run

jobVars == <<job_cls, job_chunks, job_trace, job_final>>

VARIABLES
    cv_kind,        \* "plain": results of a simple exporter; "compound"
    cv_results,     \* the list of chunk results handed to compile_vals
    cv_pc,          \* "ready", then what was compiled
    cv_one,         \* compile_vals of the list as given
    cv_two,         \* compile_vals of the list merged in steps, or reordered
    cv_other,       \* a second list of results, compiled into cv_two
    cv_child        \* the child whose entries both lists have in common

cvVars == <<cv_kind, cv_results, cv_pc, cv_one, cv_two, cv_other, cv_child>>

VARIABLES
    cmp_batch,      \* the parent batch handed to the compound exporter
    cmp_att,        \* parent record -> the records attached to it
    cmp_pc,         \* "ready", then the compound method that ran
    cmp_gen,        \* how many times generate_record_sets ran in the call
    cmp_rsets,      \* what generate_record_sets returned in the call
    cmp_calls,      \* the calls made on the children, in order
    cmp_ret,        \* how the call ended and the mapping it returned
    cmp_status      \* the job status handed to final_callback

cmpVars == <<cmp_batch, cmp_att, cmp_pc, cmp_gen, cmp_rsets, cmp_calls, cmp_ret,
             cmp_status>>

VARIABLES
    ex_store,       \* the earlier ExportInstance rows: type, status, timestamp
    ex_filter,      \* export_filter
    ex_type,        \* export_type
    ex_pc,          \* "new", "constructed", "raised", "got_records", "failed"
    ex_error,       \* the exception that left the last call, or "none"
    ex_latest,      \* options['latest_time'], 0 when not set
    ex_got,         \* the last _base_get_records call and what it returned
    ex_status,      \* self.status
    ex_inst,        \* self.instance: the attributes of the model object
    ex_row,         \* the job's ExportInstance row in the database
    ex_log,         \* what self.logger received, in order
    ex_ncalls,      \* how many log / save_status calls were made
    ex_last         \* the last of these calls: "log" or "save_status"

exVars == <<ex_store, ex_filter, ex_type, ex_pc, ex_error, ex_latest, ex_got,
            ex_status, ex_inst, ex_row, ex_log, ex_ncalls, ex_last>>

VARIABLES
    fs_heap,        \* the subfield dicts, Field objects and Fieldset objects
    fs_old,         \* the heap before the call
    fs_pc,          \* "ready", then the call that was made
    fs_call,        \* the arguments of the call
    fs_ret          \* the objects the call returned

fsVars == <<fs_heap, fs_old, fs_pc, fs_call, fs_ret>>

VARIABLES
    srt_fs,         \* the Fieldset get_sorted is called on: its Fields, in order
    srt_old,        \* that list before the calls
    srt_pc,         \* "ready", then "get_sorted"
    srt_call,       \* the arguments: elements, where the extra name goes, key, reverse
    srt_ret         \* the two lists returned: without and with the extra name

srtVars == <<srt_fs, srt_old, srt_pc, srt_call, srt_ret>>

VARIABLES
    bib_rec,        \* the BibRecord: its leader, control field and varfield rows
    bib_pc,         \* "ready", then the extractor that ran
    bib_ret         \* how the extractor ended and the Fields it returned

bibVars == <<bib_rec, bib_pc, bib_ret>>

VARIABLES
    cnv_in,         \* the bib record handed to the converters, as extracted
    cnv_pc,         \* "ready" then "converted"; "untbib" then "solr"
    cnv_order,      \* the order in which the table of the last call was walked
    cnv_untbib,     \* the bib converter's output: table as declared, table as walked
    cnv_solr        \* the solr converter's output, likewise

cnvVars == <<cnv_in, cnv_pc, cnv_order, cnv_untbib, cnv_solr>>

VARIABLES
    sh_pc,          \* "idle", or "running": a process that makes exporters
    sh_dicts,       \* the dict objects: the two default arguments and the callers' own
    sh_inst,        \* the two exporter instances: constructed, filter, self.options
    sh_ret,         \* per instance, the dict its last export_records returned
    sh_actor,       \* the instance the last call was made on
    sh_exports,     \* how many export_records calls were made
    sh_files        \* how many MARC files were written

shVars == <<sh_pc, sh_dicts, sh_inst, sh_ret, sh_actor, sh_exports, sh_files>>

VARIABLES
    rel_children,   \* the children, main child first: rel_prefix and their two lists
    rel_pc,         \* "idle", or "job": the compound exporter of a job
    rel_cache,      \* self._prefetch_related, once it is set
    rel_ret,        \* what the last access of prefetch_related gave
    rel_accesses,   \* how many times prefetch_related was read
    rel_computed    \* how many times the lists were combined

relVars == <<rel_children, rel_pc, rel_cache, rel_ret, rel_accesses, rel_computed>>

vars == <<expVars, jobVars, cvVars, cmpVars, exVars, fsVars, srtVars, bibVars, cnvVars, shVars, relVars>>

(***************************************************************************)
(* Bounds                                                                  *)
(***************************************************************************)
\* the largest batch of records, and the number of distinct record ids
MaxBatch == 3
\* the most chunks (record chunks and deletion chunks together) of one job
MaxChunks == 2
\* the most records in the batch of one chunk of a job
MaxChunkRecs == 2
\* the most chunks of one job that workers run at the same time
MaxWorkers == 2
\* the most parts of the output of one SolrMarc process
MaxOutputLines == 2
\* the longest list-valued field of one chunk result
MaxList == 1
\* the number of distinct records a compound exporter's batch is drawn from
MaxParents == 2
\* the most earlier export instances, and their latest timestamp
MaxPrior == 2
MaxTime == 2
\* the most records a query matches
MaxMatches == 2
\* the most log / save_status calls made on one exporter
MaxCalls == 3
\* the most Field objects of a Fieldset, and the most subfields of a Field
MaxFields == 2
MaxSubs == 2
\* the most Fields of a Fieldset that is sorted, their largest occurrence
\* number, and the most element names handed to get_sorted
MaxSortFields == 3
MaxOccurrence == 1
MaxElements == 2
\* the longest field_content of a varfield row, and the most varfield rows
\* of a bib
MaxContent == 4
MaxVarfields == 1
\* the most MARC fields of a bib handed to the converters
MaxMarcFields == 2
\* the most items linked to a bib handed to the converters
MaxItems == 1
\* the most export_records calls made in one process
MaxExports == 3
\* the most children of a compound exporter, and the most reads of its
\* prefetch_related in one job
MaxChildren == 2
MaxAccesses == 2

(***************************************************************************)
(* Helpers                                                                 *)
(***************************************************************************)
Range(s) == {s[i] : i \in 1..Len(s)}

RECURSIVE SeqsUpTo(_, _)
\* every sequence over S of length at most n
SeqsUpTo(S, n) ==
    IF n = 0 THEN {<<>>}
    ELSE LET shorter == SeqsUpTo(S, n - 1)
         IN  shorter \cup {Append(s, x) : s \in {t \in shorter : Len(t) = n - 1}, x \in S}

(***************************************************************************)
(* blacklight/exporters.py: BaseNonSolrmarcBibsToSolr and                  *)
(* BaseSolrMarcBibsToSolr, one batch                                       *)
(***************************************************************************)
RecIds == 1..MaxBatch

\* A source record: its id, whether sierrabib_to_untbib.convert raises on it
\* (s1), and whether untbib_to_solr.convert raises on the untbib made from
\* it (s2).
SourceRecords == [id : RecIds, s1 : BOOLEAN, s2 : BOOLEAN]

\* Batches as a queryset yields them: distinct records, ascending ids.
Batches ==
    {b \in SeqsUpTo(SourceRecords, MaxBatch) :
        \A i \in 1..Len(b) : \A j \in 1..Len(b) : i < j => b[i].id < b[j].id}

get_record_id(rec) == rec.id

LogEntry(type, msg, id) == [type |-> type, msg |-> msg, id |-> id]

\* format_error_msg without the record: the message names no record.
format_error_msg_NoRecord(error, id) == [msg |-> error, id |-> 0]

\* format_error_msg(error, record): the message carries the record's id
\* when a record is given (0: no record).
format_error_msg(error, id) == [msg |-> error, id |-> id]

\* SierraBibToUntbib.convert: raises, or the untbib built from this record.
sierrabib_to_untbib(rec) ==
    [raised |-> rec.s1, val |-> [record_id |-> rec.id, bad |-> rec.s2]]

\* UntbibToSolr.convert: raises, or the solr dict built from this untbib.
untbib_to_solr(untbib) ==
    [raised |-> untbib.bad, val |-> [id |-> untbib.record_id]]

RECURSIVE ConvertLoop(_, _, _, _, _)
\* The for loop of BaseNonSolrmarcBibsToSolr.export_records.  `untbib` is the
\* local variable: <<>> while unbound, <<u>> once assigned; it keeps its
\* value from one iteration to the next.  Reading it unbound raises
\* NameError inside the second try, which `except Exception` catches.
ConvertLoop(recs, i, untbib, solr_records, log) ==
    IF i > Len(recs) THEN [solr_records |-> solr_records, log |-> log]
    ELSE
      LET rec == recs[i]
          c1 == sierrabib_to_untbib(rec)
          untbib1 == IF c1.raised THEN untbib ELSE <<c1.val>>
          m1 == format_error_msg("Bib conversion error", get_record_id(rec))
          log1 == IF c1.raised
                  THEN Append(log, LogEntry("Error", m1.msg, m1.id))
                  ELSE log
          raised2 == IF untbib1 = <<>> THEN TRUE
                     ELSE untbib_to_solr(untbib1[1]).raised
          m2 == format_error_msg("Solr conversion error", get_record_id(rec))
      IN  IF raised2
          THEN ConvertLoop(recs, i + 1, untbib1, solr_records,
                           Append(log1, LogEntry("Error", m2.msg, m2.id)))
          ELSE ConvertLoop(recs, i + 1, untbib1,
                           Append(solr_records, untbib_to_solr(untbib1[1]).val),
                           log1)

\* BaseNonSolrmarcBibsToSolr.export_records(records): the loop, then one
\* bibs_solr.add(solr_records, commit=False); a raising add is logged.
NonSolrmarcExportRecords(recs, addRaises) ==
    LET conv == ConvertLoop(recs, 1, <<>>, <<>>, <<>>)
        m == format_error_msg("Indexing error", 0)
    IN  [log  |-> IF addRaises
                  THEN conv.log \o <<LogEntry("Info", "solr_records", 0),
                                     LogEntry("Error", m.msg, m.id)>>
                  ELSE conv.log,
         sink |-> <<[op |-> "add", commit |-> FALSE, docs |-> conv.solr_records,
                     raised |-> addRaises]>>,
         ret  |-> "returned"]

RECURSIVE NonSolrmarcDeleteLoop(_, _, _, _)
\* The for loop of BaseNonSolrmarcBibsToSolr.delete_records.  The except
\* clause calls format_error_msg(e, record); `record` is not a name of the
\* method (the loop variable is `rec`) nor of the module, so the handler
\* itself raises NameError before self.log and the method is left.
NonSolrmarcDeleteLoop(recs, i, failing, sink) ==
    IF i > Len(recs) THEN [log |-> <<>>, sink |-> sink, ret |-> "returned"]
    ELSE
      LET call == [op |-> "delete", commit |-> FALSE,
                   docs |-> <<[id |-> get_record_id(recs[i])]>>,
                   raised |-> recs[i].id \in failing]
      IN  IF recs[i].id \in failing
          THEN [log |-> <<>>, sink |-> Append(sink, call), ret |-> "raised"]
          ELSE NonSolrmarcDeleteLoop(recs, i + 1, failing, Append(sink, call))

NonSolrmarcDeleteRecords(recs, failing) ==
    NonSolrmarcDeleteLoop(recs, 1, failing, <<>>)

RECURSIVE SolrMarcDeleteLoop(_, _, _, _, _)
\* The for loop of BaseSolrMarcBibsToSolr.delete_records: a raising delete
\* is logged with str(r) and the loop goes on.
SolrMarcDeleteLoop(recs, i, failing, sink, log) ==
    IF i > Len(recs) THEN [log |-> log, sink |-> sink, ret |-> "returned"]
    ELSE
      LET call == [op |-> "delete", commit |-> FALSE,
                   docs |-> <<[id |-> get_record_id(recs[i])]>>,
                   raised |-> recs[i].id \in failing]
      IN  SolrMarcDeleteLoop(recs, i + 1, failing, Append(sink, call),
              IF recs[i].id \in failing
              THEN Append(log, LogEntry("Error", "Record", recs[i].id))
              ELSE log)

SolrMarcDeleteRecords(recs, failing) ==
    SolrMarcDeleteLoop(recs, 1, failing, <<>>, <<>>)

\* the lines the SolrMarc process may print
OutputLines == {"", "WARN w", "  ERROR e", "INFO i"}

\* output.split("\n"): one part or more
Outputs == SeqsUpTo(OutputLines, MaxOutputLines) \ {<<>>}

\* re.sub(r'^\s+', '', line) on the lines of OutputLines
lstrip(line) == IF line = "  ERROR e" THEN "ERROR e" ELSE line

\* What one BaseSolrMarcBibsToSolr.export_records call meets: whether
\* to_file raises IOError, the records S2MarcBatch could not convert
\* (batch.errors), whether the SolrMarc process exits non-zero
\* (CalledProcessError), the lines it prints, and whether it commits.
\* Whether SolrMarc commits is set by its properties file, which these
\* sources do not hold: either can happen.
SolrMarcRuns(recs) ==
    [io_error : BOOLEAN,
     marc_errors : SUBSET {recs[i].id : i \in 1..Len(recs)},
     failed : BOOLEAN,
     output : Outputs,
     commits : BOOLEAN]

\* the runs as far as the sink sees them: the output lines and the
\* records of batch.errors change the log only
SolrMarcSinkRuns ==
    [io_error : BOOLEAN, marc_errors : {{}}, failed : BOOLEAN,
     output : {<<"">>}, commits : BOOLEAN]

\* an export_records call that runs no SolrMarc process
NoSolrMarcRun ==
    [io_error |-> FALSE, marc_errors |-> {}, failed |-> FALSE,
     output |-> <<"">>, commits |-> FALSE]

\* BaseBibsDownloadMarc.export_records(records, vals={}) as called from
\* BaseSolrMarcBibsToSolr.export_records: an IOError of to_file is logged
\* and vals comes back without 'marcfile'; otherwise one Warning for every
\* record of batch.errors
BibsDownloadMarcExportRecords(recs, run) ==
    IF run.io_error
    THEN [log |-> <<LogEntry("Error", "Error writing to output file", 0)>>,
          marcfile |-> FALSE]
    ELSE LET errors == SelectSeq(recs, LAMBDA r : r.id \in run.marc_errors)
         IN  [log |-> [i \in 1..Len(errors) |->
                          LogEntry("Warning", "Record", errors[i].id)],
              marcfile |-> TRUE]

\* the lines of a process that ran to its end: the last part of the split
\* is dropped, the others are stripped on the left and logged as Warning
\* when they start with WARN, as Error when they start with ERROR
SolrMarcOutputLog(output) ==
    LET lines == [i \in 1..(Len(output) - 1) |-> lstrip(output[i])]
        told == SelectSeq(lines, LAMBDA l : l \in {"WARN w", "ERROR e"})
    IN  [i \in 1..Len(told) |->
            LogEntry(IF told[i] = "WARN w" THEN "Warning" ELSE "Error", told[i], 0)]

\* BaseSolrMarcBibsToSolr.export_records: the batch is written to a MARC
\* file and the SolrMarc jar is run on it with check_output; the jar writes
\* the batch to the bibs core without the index client.  With no MARC file
\* (IOError) ret_vals['marcfile'] raises KeyError and the process is never
\* started.  Of a failing process every output line is logged as Error,
\* then "Solrmarc process did not run successfully."
SolrMarcExportRecords(recs, run) ==
    LET marc == BibsDownloadMarcExportRecords(recs, run)
    IN  IF ~marc.marcfile
        THEN [log |-> marc.log, sink |-> <<>>, ret |-> "raised"]
        ELSE [log  |-> marc.log \o
                       (IF run.failed
                        THEN [i \in 1..Len(run.output) |->
                                 LogEntry("Error", run.output[i], 0)]
                             \o <<LogEntry("Error",
                                     "Solrmarc process did not run successfully.", 0)>>
                        ELSE SolrMarcOutputLog(run.output)),
              sink |-> <<[op |-> "solrmarc", commit |-> run.commits]>>,
              ret  |-> "returned"]

IdleExport ==
    /\ exp_records = <<>>
    /\ exp_pc = "idle"
    /\ exp_cls = "none"
    /\ exp_log = <<>>
    /\ exp_sink = <<>>
    /\ exp_ret = "none"

InitExport ==
    /\ exp_records \in Batches
    /\ exp_pc = "ready"
    /\ exp_cls = "none"
    /\ exp_log = <<>>
    /\ exp_sink = <<>>
    /\ exp_ret = "none"

\* one call of BaseNonSolrmarcBibsToSolr.export_records on a fresh exporter
ExportRecords ==
    /\ exp_pc = "ready"
    /\ \E addRaises \in BOOLEAN :
         LET r == NonSolrmarcExportRecords(exp_records, addRaises)
         IN  /\ exp_log' = r.log
             /\ exp_sink' = r.sink
             /\ exp_ret' = r.ret
    /\ exp_pc' = "export_records"
    /\ exp_cls' = "BaseNonSolrmarcBibsToSolr"
    /\ UNCHANGED exp_records
    /\ UNCHANGED <<jobVars, cvVars, cmpVars, exVars, fsVars, srtVars, bibVars, cnvVars, shVars, relVars>>

\* one call of BaseNonSolrmarcBibsToSolr.delete_records; the sink's delete
\* raises for the records of `failing`
DeleteRecordsNonSolrmarc ==
    /\ exp_pc = "ready"
    /\ \E failing \in SUBSET {exp_records[i].id : i \in 1..Len(exp_records)} :
         LET r == NonSolrmarcDeleteRecords(exp_records, failing)
         IN  /\ exp_log' = r.log
             /\ exp_sink' = r.sink
             /\ exp_ret' = r.ret
    /\ exp_pc' = "delete_records"
    /\ exp_cls' = "BaseNonSolrmarcBibsToSolr"
    /\ UNCHANGED exp_records
    /\ UNCHANGED <<jobVars, cvVars, cmpVars, exVars, fsVars, srtVars, bibVars, cnvVars, shVars, relVars>>

\* one call of BaseSolrMarcBibsToSolr.delete_records
DeleteRecordsSolrMarc ==
    /\ exp_pc = "ready"
    /\ \E failing \in SUBSET {exp_records[i].id : i \in 1..Len(exp_records)} :
         LET r == SolrMarcDeleteRecords(exp_records, failing)
         IN  /\ exp_log' = r.log
             /\ exp_sink' = r.sink
             /\ exp_ret' = r.ret
    /\ exp_pc' = "delete_records"
    /\ exp_cls' = "BaseSolrMarcBibsToSolr"
    /\ UNCHANGED exp_records
    /\ UNCHANGED <<jobVars, cvVars, cmpVars, exVars, fsVars, srtVars, bibVars, cnvVars, shVars, relVars>>

\* one call of BaseSolrMarcBibsToSolr.export_records; the class runs none
\* of the converters, so the batch is one of plain records
ExportRecordsSolrMarc ==
    /\ exp_pc = "ready"
    /\ \A i \in 1..Len(exp_records) : ~exp_records[i].s1 /\ ~exp_records[i].s2
    /\ \E run \in SolrMarcRuns(exp_records) :
         LET r == SolrMarcExportRecords(exp_records, run)
         IN  /\ exp_log' = r.log
             /\ exp_sink' = r.sink
             /\ exp_ret' = r.ret
    /\ exp_pc' = "export_records_solrmarc"
    /\ exp_cls' = "BaseSolrMarcBibsToSolr"
    /\ UNCHANGED exp_records
    /\ UNCHANGED <<jobVars, cvVars, cmpVars, exVars, fsVars, srtVars, bibVars, cnvVars, shVars, relVars>>

NextExport ==
    \/ ExportRecords
    \/ DeleteRecordsNonSolrmarc
    \/ DeleteRecordsSolrMarc
    \/ ExportRecordsSolrMarc

(***************************************************************************)
(* export/exporter.py: ToSolrExporter and MetadataToSolrExporter           *)
(***************************************************************************)
\* index_config of a ToSolrExporter subclass: the names of its indexes
IndexConfig == <<"Bibs", "Items">>

\* ToSolrExporter.Index.do_update with commit=True
IndexDoUpdate_Commits(name) ==
    [op |-> "update", commit |-> TRUE, index |-> name]

\* ToSolrExporter.Index.do_update: instance.update(commit=False, ...)
IndexDoUpdate(name) ==
    [op |-> "update", commit |-> FALSE, index |-> name]

\* ToSolrExporter.Index.do_delete: instance.delete(commit=False, ...)
IndexDoDelete(name) ==
    [op |-> "delete", commit |-> FALSE, index |-> name]

\* MetadataToSolrExporter.Index.do_update: instance.reindex(commit=False, ...)
MetadataIndexDoUpdate(name) ==
    [op |-> "reindex", commit |-> FALSE, index |-> name]

\* ToSolrExporter.export_records: do_update on every index, in order
ToSolrExportRecords(metadata) ==
    [i \in 1..Len(IndexConfig) |->
        IF metadata THEN MetadataIndexDoUpdate(IndexConfig[i])
        ELSE IndexDoUpdate(IndexConfig[i])]

\* ToSolrExporter.delete_records: do_delete on every index, in order
ToSolrDeleteRecords == [i \in 1..Len(IndexConfig) |-> IndexDoDelete(IndexConfig[i])]

\* ToSolrExporter.commit_indexes: index.commit() on every index, in order
commit_indexes ==
    [i \in 1..Len(IndexConfig) |->
        [op |-> "commit", commit |-> TRUE, index |-> IndexConfig[i]]]

(***************************************************************************)
(* One job: its chunks run export_records / delete_records, then           *)
(* final_callback.  Chunks of one job run at the same time in separate     *)
(* workers, so their sink calls come one at a time and in turns.  The code *)
(* that cuts a job into chunks, runs them and joins them is not part of    *)
(* these sources; StartChunk, EndChunk and AllChunksDone follow the        *)
(* specification's description of it.                                      *)
(***************************************************************************)
ExporterClasses ==
    {"BaseNonSolrmarcBibsToSolr", "BaseSolrMarcBibsToSolr",
     "ToSolrExporter", "MetadataToSolrExporter"}

\* a sink call as the job sees it: the operation, whether it commits, the
\* exporter method that made it and the chunk whose worker made it
Event(call, by, c) == [op |-> call.op, commit |-> call.commit, by |-> by, chunk |-> c]

Events(calls, by, c) == [i \in 1..Len(calls) |-> Event(calls[i], by, c)]

\* the sink calls of one export_records call of class cls
ExportSinkCalls(cls, recs, addRaises, run) ==
    CASE cls = "BaseNonSolrmarcBibsToSolr" ->
             NonSolrmarcExportRecords(recs, addRaises).sink
      [] cls = "BaseSolrMarcBibsToSolr" -> SolrMarcExportRecords(recs, run).sink
      [] cls = "ToSolrExporter" -> ToSolrExportRecords(FALSE)
      [] cls = "MetadataToSolrExporter" -> ToSolrExportRecords(TRUE)

\* how one export_records call of class cls ends: "returned" or "raised"
ExportOutcome(cls, recs, addRaises, run) ==
    CASE cls = "BaseNonSolrmarcBibsToSolr" ->
             NonSolrmarcExportRecords(recs, addRaises).ret
      [] cls = "BaseSolrMarcBibsToSolr" -> SolrMarcExportRecords(recs, run).ret
      [] cls = "ToSolrExporter" -> "returned"
      [] cls = "MetadataToSolrExporter" -> "returned"

\* the sink calls of one delete_records call of class cls;
\* MetadataToSolrExporter inherits delete_records of ToSolrExporter
DeleteSinkCalls(cls, recs, failing) ==
    CASE cls = "BaseNonSolrmarcBibsToSolr" ->
             NonSolrmarcDeleteRecords(recs, failing).sink
      [] cls = "BaseSolrMarcBibsToSolr" ->
             SolrMarcDeleteRecords(recs, failing).sink
      [] cls = "ToSolrExporter" -> ToSolrDeleteRecords
      [] cls = "MetadataToSolrExporter" -> ToSolrDeleteRecords

\* how one delete_records call of class cls ends: "returned" or "raised"
DeleteOutcome(cls, recs, failing) ==
    CASE cls = "BaseNonSolrmarcBibsToSolr" ->
             NonSolrmarcDeleteRecords(recs, failing).ret
      [] cls = "BaseSolrMarcBibsToSolr" ->
             SolrMarcDeleteRecords(recs, failing).ret
      [] cls = "ToSolrExporter" -> "returned"
      [] cls = "MetadataToSolrExporter" -> "returned"

\* the sink calls of final_callback of class cls: bibs_solr.commit(), or
\* commit_indexes()
FinalSinkCalls(cls) ==
    IF cls \in {"ToSolrExporter", "MetadataToSolrExporter"}
    THEN commit_indexes
    ELSE <<[op |-> "commit", commit |-> TRUE]>>

\* no chunk is waiting (chunks still running are not looked at)
AllChunksDone_NoneWaiting ==
    \A c \in 1..Len(job_chunks) : job_chunks[c].st # "waiting"

\* the join of the job: the export_records / delete_records call of every
\* chunk has ended, by returning ("done") or by raising ("raised")
AllChunksDone ==
    \A c \in 1..Len(job_chunks) : job_chunks[c].st \in {"done", "raised"}

IdleJob ==
    /\ job_cls = "none"
    /\ job_chunks = <<>>
    /\ job_trace = <<>>
    /\ job_final = 0

\* a chunk no worker has taken yet
WaitingChunk(kind) ==
    [kind |-> kind, st |-> "waiting", calls |-> <<>>, ret |-> "none"]

\* MetadataToSolrExporter.get_deletions returns None: such a job has no
\* deletion chunks.
InitJob ==
    /\ job_cls \in ExporterClasses
    /\ \E nRec \in 0..MaxChunks :
       \E nDel \in 0..(IF job_cls = "MetadataToSolrExporter" THEN 0 ELSE MaxChunks - nRec) :
          job_chunks = [c \in 1..(nRec + nDel) |->
                          WaitingChunk(IF c <= nRec THEN "rec" ELSE "del")]
    /\ job_trace = <<>>
    /\ job_final = 0

\* the batch of one chunk of the job: what the conversions do with a record
\* does not change which sink calls are made, so the records are plain
ChunkBatches ==
    {b \in Batches : \A i \in 1..Len(b) : b[i].id <= MaxChunkRecs /\ ~b[i].s1 /\ ~b[i].s2}

\* the chunks some worker is running
RunningChunks == {c \in 1..Len(job_chunks) : job_chunks[c].st = "running"}

\* a free worker takes a chunk and calls export_records or delete_records
\* with its batch; `calls` are the sink calls that call is going to make, in
\* order, and `ret` is how it is going to end
StartChunk(c) ==
    /\ job_chunks[c].st = "waiting"
    /\ Cardinality(RunningChunks) < MaxWorkers
    /\ \E recs \in ChunkBatches :
         IF job_chunks[c].kind = "rec"
         THEN \E addRaises \in BOOLEAN :
              \E run \in IF job_cls = "BaseSolrMarcBibsToSolr"
                         THEN SolrMarcSinkRuns ELSE {NoSolrMarcRun} :
                job_chunks' = [job_chunks EXCEPT ![c] =
                    [kind |-> "rec", st |-> "running",
                     calls |-> Events(ExportSinkCalls(job_cls, recs, addRaises, run),
                                      "export_records", c),
                     ret |-> ExportOutcome(job_cls, recs, addRaises, run)]]
         ELSE \E failing \in SUBSET {recs[i].id : i \in 1..Len(recs)} :
                job_chunks' = [job_chunks EXCEPT ![c] =
                    [kind |-> "del", st |-> "running",
                     calls |-> Events(DeleteSinkCalls(job_cls, recs, failing),
                                      "delete_records", c),
                     ret |-> DeleteOutcome(job_cls, recs, failing)]]
    /\ UNCHANGED <<job_cls, job_trace, job_final>>
    /\ UNCHANGED <<expVars, cvVars, cmpVars, exVars, fsVars, srtVars, bibVars, cnvVars, shVars, relVars>>
\* export_records of a record chunk makes its next sink call
ExportChunk(c) ==
    /\ job_chunks[c].kind = "rec"
    /\ job_chunks[c].st = "running"
    /\ job_chunks[c].calls # <<>>
    /\ job_trace' = Append(job_trace, Head(job_chunks[c].calls))
    /\ job_chunks' = [job_chunks EXCEPT ![c].calls = Tail(job_chunks[c].calls)]
    /\ UNCHANGED <<job_cls, job_final>>
    /\ UNCHANGED <<expVars, cvVars, cmpVars, exVars, fsVars, srtVars, bibVars, cnvVars, shVars, relVars>>
\* delete_records of a deletion chunk makes its next sink call
DeleteChunk(c) ==
    /\ job_chunks[c].kind = "del"
    /\ job_chunks[c].st = "running"
    /\ job_chunks[c].calls # <<>>
    /\ job_trace' = Append(job_trace, Head(job_chunks[c].calls))
    /\ job_chunks' = [job_chunks EXCEPT ![c].calls = Tail(job_chunks[c].calls)]
    /\ UNCHANGED <<job_cls, job_final>>
    /\ UNCHANGED <<expVars, cvVars, cmpVars, exVars, fsVars, srtVars, bibVars, cnvVars, shVars, relVars>>
\* the export_records / delete_records call of a chunk ends after its last
\* sink call: it returns, or it has raised
EndChunk(c) ==
    /\ job_chunks[c].st = "running"
    /\ job_chunks[c].calls = <<>>
    /\ job_chunks' = [job_chunks EXCEPT ![c].st =
                         IF job_chunks[c].ret = "raised" THEN "raised" ELSE "done"]
    /\ UNCHANGED <<job_cls, job_trace, job_final>>
    /\ UNCHANGED <<expVars, cvVars, cmpVars, exVars, fsVars, srtVars, bibVars, cnvVars, shVars, relVars>>
\* final_callback of the job's exporter
FinalCallback ==
    /\ job_cls \in ExporterClasses
    /\ AllChunksDone
    /\ job_final = 0
    /\ job_trace' = job_trace \o Events(FinalSinkCalls(job_cls), "final_callback", 0)
    /\ job_final' = job_final + 1
    /\ UNCHANGED <<job_cls, job_chunks>>
    /\ UNCHANGED <<expVars, cvVars, cmpVars, exVars, fsVars, srtVars, bibVars, cnvVars, shVars, relVars>>
NextJob ==
    \/ \E c \in 1..Len(job_chunks) : StartChunk(c)
    \/ \E c \in 1..Len(job_chunks) : ExportChunk(c)
    \/ \E c \in 1..Len(job_chunks) : DeleteChunk(c)
    \/ \E c \in 1..Len(job_chunks) : EndChunk(c)
    \/ FinalCallback

(***************************************************************************)
(* export/exporter.py: Exporter.compile_vals and                           *)
(* CompoundMixin.compile_vals_from_children                                *)
(*                                                                         *)
(* A value returned by export_records / delete_records is None, a list or  *)
(* a dict; every value carries its kind, the items of a list and the       *)
(* entries of a dict.                                                      *)
(***************************************************************************)
NoEntries == [k \in {} |-> 0]

None == [kind |-> "none", items |-> <<>>, entries |-> NoEntries]

ValList(s) == [kind |-> "list", items |-> s, entries |-> NoEntries]

ValDict(m) == [kind |-> "dict", items |-> <<>>, entries |-> m]

RECURSIVE dict_merge(_, _)
\* utils.dict_merge(orig_dict, new_dict): nested dicts are merged
\* recursively and lists under the same key are concatenated, the new one
\* after the old one.  (utils is not part of these sources; this follows the
\* docstring of compile_vals and the specification.)
dict_merge(orig, new) ==
    ValDict([k \in DOMAIN orig.entries \cup DOMAIN new.entries |->
        IF k \notin DOMAIN new.entries THEN orig.entries[k]
        ELSE IF new.entries[k].kind = "dict"
             THEN dict_merge(IF k \in DOMAIN orig.entries
                             THEN orig.entries[k] ELSE ValDict(NoEntries),
                             new.entries[k])
        ELSE IF new.entries[k].kind = "list"
             THEN ValList((IF k \in DOMAIN orig.entries
                           THEN orig.entries[k].items ELSE <<>>)
                          \o new.entries[k].items)
        ELSE new.entries[k]])

RECURSIVE compile_loop_StopsAtNone(_, _, _)
\* the for loop of compile_vals leaving at the first item that is not a dict
compile_loop_StopsAtNone(results, i, vals) ==
    IF i > Len(results) \/ results[i].kind # "dict" THEN vals
    ELSE compile_loop_StopsAtNone(results, i + 1, dict_merge(vals, results[i]))

RECURSIVE compile_loop(_, _, _)
\* the for loop of compile_vals: items that are not dicts are passed over
compile_loop(results, i, vals) ==
    IF i > Len(results) THEN vals
    ELSE compile_loop(results, i + 1,
                      IF results[i].kind = "dict"
                      THEN dict_merge(vals, results[i]) ELSE vals)

\* `vals or None`
OrNone(vals) == IF DOMAIN vals.entries = {} THEN None ELSE vals

\* compile_vals that starts from the first result and then merges every
\* result, the first one again
compile_vals_FirstTwice(results) ==
    OrNone(compile_loop(results, 1,
        IF Len(results) > 0 /\ results[1].kind = "dict"
        THEN results[1] ELSE ValDict(NoEntries)))

\* Exporter.compile_vals(results)
compile_vals(results) == OrNone(compile_loop(results, 1, ValDict(NoEntries)))

\* children_config of a compound exporter: the names of its children, the
\* main child first
ChildrenConfig == <<"bibs", "items">>

ChildNames == Range(ChildrenConfig)

\* compile_vals_from_children handing every child the entries of all the
\* children, one child after the other
compile_vals_from_children_AllEntries(results) ==
    LET given == SelectSeq(results, LAMBDA r : r.kind # "none")
        sep_vals(name) == [i \in 1..Len(given) |-> given[i].entries[name]]
        all_vals == sep_vals(ChildrenConfig[1]) \o sep_vals(ChildrenConfig[2])
    IN  ValDict([name \in ChildNames |-> compile_vals(all_vals)])

\* CompoundMixin.compile_vals_from_children(results): each child's entries
\* of the results that are not None, compiled by that child's compile_vals
compile_vals_from_children(results) ==
    LET given == SelectSeq(results, LAMBDA r : r.kind # "none")
        sep_vals(name) == [i \in 1..Len(given) |-> given[i].entries[name]]
    IN  ValDict([name \in ChildNames |-> compile_vals(sep_vals(name))])

\* AttachedRecordExporter.compile_vals
CompoundCompileVals(results) == compile_vals_from_children(results)

\* The lists of chunk n hold elements of chunk n only (10n+1, 10n+2, ...), so
\* that the place of every element in a merged list shows where it came from.
ListsOf(n) == {[i \in 1..len |-> 10 * n + i] : len \in 0..MaxList}

\* the nested dicts of chunk n: {} and {"n": list}
InnerDictsOf(n) ==
    {ValDict(NoEntries)} \cup {ValDict([k \in {"n"} |-> ValList(l)]) : l \in ListsOf(n)}

\* the results of chunk n of a simple exporter: None, or a dict that may hold
\* a list under "l" and a nested dict under "m"
ResultsOf(n) ==
    {None}
    \cup {ValDict(NoEntries)}
    \cup {ValDict([k \in {"l"} |-> ValList(l)]) : l \in ListsOf(n)}
    \cup {ValDict([k \in {"m"} |-> d]) : d \in InnerDictsOf(n)}
    \cup {ValDict([k \in {"l", "m"} |-> IF k = "l" THEN ValList(l) ELSE d]) :
             l \in ListsOf(n), d \in InnerDictsOf(n)}

\* the results of chunk n of one child of a compound exporter
ChildResultsOf(n) ==
    {None} \cup {ValDict([k \in {"l"} |-> ValList(l)]) : l \in ListsOf(n)}

\* the results of chunk n of a compound exporter: None, or each child's
\* result under the child's name
CompoundResultsOf(n) ==
    {None} \cup {ValDict(m) : m \in [ChildNames -> ChildResultsOf(n)]}

\* the orders the three chunks of a job can finish in
Orders == {p \in [1..3 -> 1..3] : \A i \in 1..3 : \A j \in 1..3 : p[i] = p[j] => i = j}

IdleCompile ==
    /\ cv_kind = "none"
    /\ cv_results = <<>>
    /\ cv_pc = "idle"
    /\ cv_one = None
    /\ cv_two = None
    /\ cv_other = <<>>
    /\ cv_child = "none"

InitCompile ==
    /\ cv_kind \in {"plain", "compound"}
    /\ cv_results \in
         IF cv_kind = "plain"
         THEN {<<a, b, c>> : a \in ResultsOf(1), b \in ResultsOf(2), c \in ResultsOf(3)}
         ELSE {<<a, b, c>> : a \in CompoundResultsOf(1), b \in CompoundResultsOf(2),
                             c \in CompoundResultsOf(3)}
    /\ cv_pc = "ready"
    /\ cv_one = None
    /\ cv_two = None
    /\ cv_other = <<>>
    /\ cv_child = "none"

\* compile_vals of all three results, and of the first two and then the third
CompileInSteps ==
    /\ cv_pc = "ready"
    /\ cv_kind = "plain"
    /\ cv_one' = compile_vals(cv_results)
    /\ cv_two' = compile_vals(<<compile_vals(SubSeq(cv_results, 1, 2)), cv_results[3]>>)
    /\ cv_pc' = "in_steps"
    /\ UNCHANGED <<cv_kind, cv_results, cv_other, cv_child>>
    /\ UNCHANGED <<expVars, jobVars, cmpVars, exVars, fsVars, srtVars, bibVars, cnvVars, shVars, relVars>>

\* compile_vals of the results in the order given, and in another order
CompileReordered ==
    /\ cv_pc = "ready"
    /\ cv_kind = "plain"
    /\ \E p \in Orders :
         /\ cv_one' = compile_vals(cv_results)
         /\ cv_two' = compile_vals([i \in 1..3 |-> cv_results[p[i]]])
    /\ cv_pc' = "reordered"
    /\ UNCHANGED <<cv_kind, cv_results, cv_other, cv_child>>
    /\ UNCHANGED <<expVars, jobVars, cmpVars, exVars, fsVars, srtVars, bibVars, cnvVars, shVars, relVars>>

\* the compound compile_vals of the results in the order given, and in
\* another order
CompoundCompileReordered ==
    /\ cv_pc = "ready"
    /\ cv_kind = "compound"
    /\ \E p \in Orders :
         /\ cv_one' = CompoundCompileVals(cv_results)
         /\ cv_two' = CompoundCompileVals([i \in 1..3 |-> cv_results[p[i]]])
    /\ cv_pc' = "reordered"
    /\ UNCHANGED <<cv_kind, cv_results, cv_other, cv_child>>
    /\ UNCHANGED <<expVars, jobVars, cmpVars, exVars, fsVars, srtVars, bibVars, cnvVars, shVars, relVars>>

\* the compound compile_vals of the results given, and of a second list that
\* has the same entries for one child and, in the chunks of `changed`, other
\* entries for the other children
CompoundCompileOther ==
    /\ cv_pc = "ready"
    /\ cv_kind = "compound"
    /\ \E name \in ChildNames :
       \E changed \in SUBSET (1..3) :
         LET alt(i) == [n \in ChildNames |->
                          IF n = name \/ i \notin changed
                          THEN cv_results[i].entries[n]
                          ELSE IF cv_results[i].entries[n].kind = "none"
                               THEN ValDict([k \in {"l"} |-> ValList(<<10 * i + 1>>)])
                               ELSE None]
             other == [i \in 1..3 |->
                         IF cv_results[i].kind = "none" THEN None
                         ELSE ValDict(alt(i))]
         IN  /\ cv_other' = other
             /\ cv_child' = name
             /\ cv_one' = CompoundCompileVals(cv_results)
             /\ cv_two' = CompoundCompileVals(other)
    /\ cv_pc' = "other"
    /\ UNCHANGED <<cv_kind, cv_results>>
    /\ UNCHANGED <<expVars, jobVars, cmpVars, exVars, fsVars, srtVars, bibVars, cnvVars, shVars, relVars>>

NextCompile ==
    \/ CompileInSteps
    \/ CompileReordered
    \/ CompoundCompileReordered
    \/ CompoundCompileOther

(***************************************************************************)
(* export/exporter.py: CompoundMixin and AttachedRecordExporter            *)
(***************************************************************************)
Parents == 1..MaxParents

\* AttachedRecordExporter.main_child: the first child of the configuration
MainChild == ChildrenConfig[1]

\* the ascending list of the elements of a set of records
RECURSIVE Ascending(_)
Ascending(S) ==
    IF S = {} THEN <<>>
    ELSE LET x == CHOOSE y \in S : \A z \in S : y <= z
         IN  <<x>> \o Ascending(S \ {x})

\* the parent batches: distinct records, ascending
ParentBatches == {Ascending(S) : S \in SUBSET Parents}

\* what an attached child may derive from the parents: for each parent a
\* list of distinct records (the parent itself may be among them)
Attachments == [Parents -> {Ascending(S) : S \in SUBSET Parents}]

\* Child.derive_records(parent_record): [parent_record] by default (the main
\* child); an attached child overrides it and returns the attached records.
derive_records(name, rec, att) ==
    IF name = MainChild THEN <<rec>> ELSE att[rec]

RECURSIVE ExtendAll(_, _, _, _)
\* child_rsets[name] after the loop over the batch: every derive_records
\* result appended, duplicates and all
ExtendAll(name, batch, att, i) ==
    IF i > Len(batch) THEN <<>>
    ELSE derive_records(name, batch[i], att) \o ExtendAll(name, batch, att, i + 1)

\* the lists list(set(v)) may return: the elements of v, each once, in the
\* order the set happens to iterate
ListsOfSet(v) ==
    LET S == Range(v)
    IN  {l \in [1..Cardinality(S) -> S] :
            \A i \in 1..Cardinality(S) : \A j \in 1..Cardinality(S) :
                l[i] = l[j] => i = j}

\* generate_record_sets returning list(v) for each child
generate_record_sets_NoDedup(batch, att) ==
    {[name \in ChildNames |-> ExtendAll(name, batch, att, 1)]}

\* CompoundMixin.generate_record_sets(record_set): every mapping it may
\* return
generate_record_sets(batch, att) ==
    {rsets \in [ChildNames -> UNION {ListsOfSet(ExtendAll(name, batch, att, 1)) :
                                        name \in ChildNames}] :
        \A name \in ChildNames :
            rsets[name] \in ListsOfSet(ExtendAll(name, batch, att, 1))}

\* what a child's export_records / delete_records returns: a value that
\* tells the child, the method and the records it was given
ChildResult(name, op, recs) == [by |-> name, op |-> op, recs |-> recs]

\* None in place of a child's result
NoResult == [by |-> "", op |-> "none", recs |-> <<>>]

ChildCall(name, op, recs, vals) ==
    [child |-> name, op |-> op, recs |-> recs, vals |-> vals]

Put(vals, name, v) ==
    [n \in DOMAIN vals \cup {name} |-> IF n = name THEN v ELSE vals[n]]

RECURSIVE OpOnChildrenLoop(_, _, _, _, _, _)
\* the dict comprehension of do_op_on_children: the children in
\* configuration order; a child that raises ends it
OpOnChildrenLoop(op, rsets, failing, i, calls, vals) ==
    IF i > Len(ChildrenConfig)
    THEN [calls |-> calls, outcome |-> "returned", vals |-> vals]
    ELSE LET name == ChildrenConfig[i]
             call == ChildCall(name, op, rsets[name], NoResult)
         IN  IF name \in failing
             THEN [calls |-> Append(calls, call), outcome |-> "raised",
                   vals |-> NoEntries]
             ELSE OpOnChildrenLoop(op, rsets, failing, i + 1, Append(calls, call),
                                   Put(vals, name, ChildResult(name, op, rsets[name])))

\* do_op_on_children handing every child the main child's record set
do_op_on_children_MainSet(op, batch, att, failing) ==
    {LET r == OpOnChildrenLoop(op, [name \in ChildNames |-> rsets[MainChild]],
                               failing, 1, <<>>, NoEntries)
     IN  [gen |-> 1, rsets |-> rsets, calls |-> r.calls,
          outcome |-> r.outcome, vals |-> r.vals] :
        rsets \in generate_record_sets(batch, att)}

\* CompoundMixin.do_op_on_children(operation, records): one call of
\* generate_record_sets, then the operation on every child with the child's
\* own record set; the children of `failing` raise.  Every way the call may
\* go (one for each order list(set(v)) may give).
do_op_on_children(op, batch, att, failing) ==
    {LET r == OpOnChildrenLoop(op, rsets, failing, 1, <<>>, NoEntries)
     IN  [gen |-> 1, rsets |-> rsets, calls |-> r.calls,
          outcome |-> r.outcome, vals |-> r.vals] :
        rsets \in generate_record_sets(batch, att)}

\* delete_records fanning out to every child, each with the batch as given
CompoundDeleteRecords_FansOut(batch, failing) ==
    LET r == OpOnChildrenLoop("delete_records", [name \in ChildNames |-> batch],
                              failing, 1, <<>>, NoEntries)
    IN  [gen |-> 0, rsets |-> NoEntries, calls |-> r.calls,
         outcome |-> r.outcome, vals |-> r.vals]

\* AttachedRecordExporter.delete_records(records): None for every child,
\* then the main child's delete_records on the records as given
CompoundDeleteRecords(batch, failing) ==
    LET call == ChildCall(MainChild, "delete_records", batch, NoResult)
    IN  [gen |-> 0, rsets |-> NoEntries, calls |-> <<call>>,
         outcome |-> IF MainChild \in failing THEN "raised" ELSE "returned",
         vals |-> IF MainChild \in failing THEN NoEntries
                  ELSE [name \in ChildNames |->
                          IF name = MainChild
                          THEN ChildResult(name, "delete_records", batch)
                          ELSE NoResult]]

\* the vals of a finished compound job: one entry per child
FinalVals == [name \in ChildNames |-> ChildResult(name, "compile_vals", <<>>)]

\* the status a finished job hands to final_callback
JobStatuses == {"success", "done_with_errors", "error"}

\* child.final_callback(vals=..., status=status)
FinalCall(name, vals, status) ==
    [child |-> name, op |-> "final_callback", recs |-> <<>>, vals |-> vals,
     status |-> status]

RECURSIVE FinalCallbackLoop(_, _, _, _, _)
\* the for loop of do_final_callback_on_children: the children in
\* configuration order, each with its own entry of vals; a child that raises
\* ends the loop
FinalCallbackLoop(vals, status, failing, i, calls) ==
    IF i > Len(ChildrenConfig)
    THEN [calls |-> calls, outcome |-> "returned", vals |-> NoEntries]
    ELSE LET name == ChildrenConfig[i]
             call == FinalCall(name, vals[name], status)
         IN  IF name \in failing
             THEN [calls |-> Append(calls, call), outcome |-> "raised",
                   vals |-> NoEntries]
             ELSE FinalCallbackLoop(vals, status, failing, i + 1, Append(calls, call))

\* do_final_callback_on_children handing every child the main child's vals
do_final_callback_on_children_MainVals(vals, status, failing) ==
    FinalCallbackLoop([name \in ChildNames |-> vals[MainChild]], status, failing,
                      1, <<>>)

\* CompoundMixin.do_final_callback_on_children(vals, status)
do_final_callback_on_children(vals, status, failing) ==
    FinalCallbackLoop(vals, status, failing, 1, <<>>)

IdleCompound ==
    /\ cmp_batch = <<>>
    /\ cmp_att = <<>>
    /\ cmp_pc = "idle"
    /\ cmp_gen = 0
    /\ cmp_rsets = NoEntries
    /\ cmp_calls = <<>>
    /\ cmp_ret = [outcome |-> "none", vals |-> NoEntries]
    /\ cmp_status = "none"

InitCompound ==
    /\ cmp_batch \in ParentBatches
    /\ cmp_att \in Attachments
    /\ cmp_pc = "ready"
    /\ cmp_gen = 0
    /\ cmp_rsets = NoEntries
    /\ cmp_calls = <<>>
    /\ cmp_ret = [outcome |-> "none", vals |-> NoEntries]
    /\ cmp_status = "none"

\* AttachedRecordExporter.export_records(records)
CompoundExportRecords ==
    /\ cmp_pc = "ready"
    /\ \E failing \in SUBSET ChildNames :
       \E r \in do_op_on_children("export_records", cmp_batch, cmp_att, failing) :
         /\ cmp_gen' = r.gen
         /\ cmp_rsets' = r.rsets
         /\ cmp_calls' = r.calls
         /\ cmp_ret' = [outcome |-> r.outcome, vals |-> r.vals]
    /\ cmp_pc' = "export_records"
    /\ UNCHANGED <<cmp_batch, cmp_att, cmp_status>>
    /\ UNCHANGED <<expVars, jobVars, cvVars, exVars, fsVars, srtVars, bibVars, cnvVars, shVars, relVars>>

\* AttachedRecordExporter.delete_records(records)
CompoundDelete ==
    /\ cmp_pc = "ready"
    /\ \E failing \in SUBSET ChildNames :
         LET r == CompoundDeleteRecords(cmp_batch, failing)
         IN  /\ cmp_gen' = r.gen
             /\ cmp_rsets' = r.rsets
             /\ cmp_calls' = r.calls
             /\ cmp_ret' = [outcome |-> r.outcome, vals |-> r.vals]
    /\ cmp_pc' = "delete_records"
    /\ UNCHANGED <<cmp_batch, cmp_att, cmp_status>>
    /\ UNCHANGED <<expVars, jobVars, cvVars, exVars, fsVars, srtVars, bibVars, cnvVars, shVars, relVars>>

\* AttachedRecordExporter.final_callback(vals, status)
CompoundFinalCallback ==
    /\ cmp_pc = "ready"
    /\ \E failing \in SUBSET ChildNames :
       \E status \in JobStatuses :
         LET r == do_final_callback_on_children(FinalVals, status, failing)
         IN  /\ cmp_calls' = r.calls
             /\ cmp_ret' = [outcome |-> r.outcome, vals |-> r.vals]
             /\ cmp_status' = status
    /\ cmp_pc' = "final_callback"
    /\ UNCHANGED <<cmp_batch, cmp_att, cmp_gen, cmp_rsets>>
    /\ UNCHANGED <<expVars, jobVars, cvVars, exVars, fsVars, srtVars, bibVars, cnvVars, shVars, relVars>>

NextCompound ==
    \/ CompoundExportRecords
    \/ CompoundDelete
    \/ CompoundFinalCallback

(***************************************************************************)
(* export/exporter.py: Exporter.__init__, _base_get_records, log and       *)
(* save_status                                                             *)
(***************************************************************************)
ExportTypes == {"BibsToSolr", "ItemsToSolr"}

ExportFilters == {"full_export", "last_export"}

\* the rows of the Status table
DefinedStatuses ==
    {"waiting", "running", "success", "done_with_errors", "error", "unknown"}

\* the statuses of the earlier export instances
PriorStatuses == {"success", "done_with_errors", "error", "running"}

ExportInstances ==
    [type : ExportTypes, status : PriorStatuses, timestamp : 1..MaxTime]

\* the tables of earlier export instances
Stores == {st \in SUBSET ExportInstances : Cardinality(st) <= MaxPrior}

\* ExportInstance.objects.filter(export_type=..., status__in=[...])
LastExportCandidates(store, export_type) ==
    {i \in store : i.type = export_type /\ i.status \in {"success", "done_with_errors"}}

\* .order_by('-timestamp')[0].timestamp
LatestTimestamp(rows) ==
    CHOOSE t \in {i.timestamp : i \in rows} : \A i \in rows : i.timestamp <= t

\* Exporter.__init__ taking the latest instance of any status
ExporterInit_AnyStatus(store, export_filter, export_type) ==
    IF export_filter = "last_export"
    THEN LET found == {i \in store : i.type = export_type}
         IN  IF found = {}
             THEN [outcome |-> "ExportError", status |-> "unknown", latest_time |-> 0]
             ELSE [outcome |-> "constructed", status |-> "unknown",
                   latest_time |-> LatestTimestamp(found)]
    ELSE [outcome |-> "constructed", status |-> "unknown", latest_time |-> 0]

\* Exporter.__init__(instance_pk, export_filter, export_type, options)
ExporterInit(store, export_filter, export_type) ==
    IF export_filter = "last_export"
    THEN LET found == LastExportCandidates(store, export_type)
         IN  IF found = {}
             THEN [outcome |-> "ExportError", status |-> "unknown", latest_time |-> 0]
             ELSE [outcome |-> "constructed", status |-> "unknown",
                   latest_time |-> LatestTimestamp(found)]
    ELSE [outcome |-> "constructed", status |-> "unknown", latest_time |-> 0]

\* Exporter._base_get_records(model, filters, fail_on_zero): the query fails
\* while it is built, or matches `matches` records.  The message of the
\* ExportError for zero records is formatted with model_name, a local that
\* is only bound in the except clause.
base_get_records(query_fails, matches, fail_on_zero) ==
    IF query_fails THEN [outcome |-> "ExportError", records |-> -1]
    ELSE IF fail_on_zero /\ matches = 0
         THEN [outcome |-> "UnboundLocalError", records |-> -1]
         ELSE [outcome |-> "returned", records |-> matches]

\* a model attribute: a plain value, or the expression F(field) + 1
Plain(v) == [f |-> FALSE, v |-> v]

FPlusOne == [f |-> TRUE, v |-> 0]

\* self.instance as loaded by ExportInstance.objects.get(pk=instance_pk)
LoadedInstance(row) ==
    [warnings |-> Plain(row.warnings), errors |-> Plain(row.errors),
     status |-> row.status]

\* self.instance.save(): every field is written; an attribute holding
\* F(field) + 1 adds one to the column and stays on the object
save(inst, row) ==
    [warnings |-> IF inst.warnings.f THEN row.warnings + 1 ELSE inst.warnings.v,
     errors |-> IF inst.errors.f THEN row.errors + 1 ELSE inst.errors.v,
     status |-> inst.status]

LogTypes == {"Error", "Warning", "Info"}

\* the exporter as log and save_status see it
ExporterState(status, inst, row, log) ==
    [status |-> status, inst |-> inst, row |-> row, log |-> log]

\* Exporter.log(type, message)
log(x, type) ==
    LET logged == Append(x.log, type)
    IN  IF type = "Warning"
        THEN LET inst == [x.inst EXCEPT !.warnings = FPlusOne]
             IN  ExporterState(x.status, inst, save(inst, x.row), logged)
        ELSE IF type = "Error"
        THEN LET inst == [x.inst EXCEPT !.errors = FPlusOne]
             IN  ExporterState(x.status, inst, save(inst, x.row), logged)
        ELSE ExporterState(x.status, x.inst, x.row, logged)

\* save_status persisting self.status as it is
save_status_AsGiven(x) ==
    LET inst == [x.inst EXCEPT !.status = x.status]
    IN  ExporterState(x.status, inst, save(inst, x.row), x.log)

\* Exporter.save_status()
save_status(x) ==
    IF x.status \in DefinedStatuses
    THEN LET inst == [x.inst EXCEPT !.status = x.status]
         IN  ExporterState(x.status, inst, save(inst, x.row), x.log)
    ELSE LET y == log(x, "Warning")
             inst == [y.inst EXCEPT !.status = "unknown"]
         IN  ExporterState(y.status, inst, save(inst, y.row), y.log)

\* no _base_get_records call made
NoQuery == [fails |-> FALSE, matches |-> 0, fail_on_zero |-> FALSE, records |-> -1]

NewRow == [warnings |-> 0, errors |-> 0, status |-> "waiting"]

IdleExporter ==
    /\ ex_store = {}
    /\ ex_filter = "none"
    /\ ex_type = "none"
    /\ ex_pc = "idle"
    /\ ex_error = "none"
    /\ ex_latest = 0
    /\ ex_got = NoQuery
    /\ ex_status = "none"
    /\ ex_inst = LoadedInstance(NewRow)
    /\ ex_row = NewRow
    /\ ex_log = <<>>
    /\ ex_ncalls = 0
    /\ ex_last = "none"

\* before the exporter of a job is constructed
InitSetup ==
    /\ ex_store \in Stores
    /\ ex_filter \in ExportFilters
    /\ ex_type \in ExportTypes
    /\ ex_pc = "new"
    /\ ex_error = "none"
    /\ ex_latest = 0
    /\ ex_got = NoQuery
    /\ ex_status = "none"
    /\ ex_inst = LoadedInstance(NewRow)
    /\ ex_row = NewRow
    /\ ex_log = <<>>
    /\ ex_ncalls = 0
    /\ ex_last = "none"

\* an exporter constructed for a full export
InitStatus ==
    /\ ex_store = {}
    /\ ex_filter = "full_export"
    /\ ex_type \in ExportTypes
    /\ ex_pc = "constructed"
    /\ ex_error = "none"
    /\ ex_latest = 0
    /\ ex_got = NoQuery
    /\ ex_status = "unknown"
    /\ ex_inst = LoadedInstance(NewRow)
    /\ ex_row = NewRow
    /\ ex_log = <<>>
    /\ ex_ncalls = 0
    /\ ex_last = "none"

\* Exporter(instance_pk, export_filter, export_type)
Construct ==
    /\ ex_pc = "new"
    /\ LET r == ExporterInit(ex_store, ex_filter, ex_type)
       IN  /\ ex_pc' = IF r.outcome = "constructed" THEN "constructed" ELSE "raised"
           /\ ex_error' = IF r.outcome = "constructed" THEN "none" ELSE r.outcome
           /\ ex_status' = r.status
           /\ ex_latest' = r.latest_time
    /\ UNCHANGED <<ex_store, ex_filter, ex_type, ex_got, ex_inst, ex_row, ex_log,
                   ex_ncalls, ex_last>>
    /\ UNCHANGED <<expVars, jobVars, cvVars, cmpVars, fsVars, srtVars, bibVars, cnvVars, shVars, relVars>>

\* exporter._base_get_records(model, filters, fail_on_zero=...)
GetRecords ==
    /\ ex_pc = "constructed"
    /\ ex_ncalls = 0
    /\ \E query_fails \in BOOLEAN, matches \in 0..MaxMatches, fail_on_zero \in BOOLEAN :
         LET r == base_get_records(query_fails, matches, fail_on_zero)
         IN  /\ ex_pc' = IF r.outcome = "returned" THEN "got_records" ELSE "failed"
             /\ ex_error' = IF r.outcome = "returned" THEN "none" ELSE r.outcome
             /\ ex_got' = [fails |-> query_fails, matches |-> matches,
                           fail_on_zero |-> fail_on_zero, records |-> r.records]
    /\ UNCHANGED <<ex_store, ex_filter, ex_type, ex_latest, ex_status, ex_inst,
                   ex_row, ex_log, ex_ncalls, ex_last>>
    /\ UNCHANGED <<expVars, jobVars, cvVars, cmpVars, fsVars, srtVars, bibVars, cnvVars, shVars, relVars>>

\* exporter.log(type, message)
Log ==
    /\ ex_pc = "constructed"
    /\ ex_ncalls < MaxCalls
    /\ \E type \in LogTypes :
         LET y == log(ExporterState(ex_status, ex_inst, ex_row, ex_log), type)
         IN  /\ ex_inst' = y.inst
             /\ ex_row' = y.row
             /\ ex_log' = y.log
    /\ ex_ncalls' = ex_ncalls + 1
    /\ ex_last' = "log"
    /\ UNCHANGED <<ex_store, ex_filter, ex_type, ex_pc, ex_error, ex_latest, ex_got,
                   ex_status>>
    /\ UNCHANGED <<expVars, jobVars, cvVars, cmpVars, fsVars, srtVars, bibVars, cnvVars, shVars, relVars>>

\* exporter.status = status; exporter.save_status()
SaveStatus ==
    /\ ex_pc = "constructed"
    /\ ex_ncalls < MaxCalls
    /\ \E status \in DefinedStatuses \cup {"finished"} :
         LET y == save_status(ExporterState(status, ex_inst, ex_row, ex_log))
         IN  /\ ex_status' = y.status
             /\ ex_inst' = y.inst
             /\ ex_row' = y.row
             /\ ex_log' = y.log
    /\ ex_ncalls' = ex_ncalls + 1
    /\ ex_last' = "save_status"
    /\ UNCHANGED <<ex_store, ex_filter, ex_type, ex_pc, ex_error, ex_latest, ex_got>>
    /\ UNCHANGED <<expVars, jobVars, cvVars, cmpVars, fsVars, srtVars, bibVars, cnvVars, shVars, relVars>>

NextSetup ==
    \/ Construct
    \/ GetRecords

NextStatus ==
    \/ Log
    \/ SaveStatus

(***************************************************************************)
(* blacklight/marcfieldset: fieldset.py (Field, Fieldset) and filters.py   *)
(*                                                                         *)
(* Fields, Fieldsets and subfield dicts are objects: the heap holds them   *)
(* by address, a Field holds the addresses of its subfields and a Fieldset *)
(* the addresses of its Fields.  A new object takes the next address.      *)
(***************************************************************************)
FieldTags == {"245", "500"}

SubfieldTags == {"a", "b"}

\* subfield data: a text and what the replace functions did to it
Data(text) == [text |-> text, marks |-> 0, upper |-> FALSE]

\* the replace functions: '{} (r)'.format(data), and data.upper()
ReplaceFunctions == {"mark", "upper"}

\* replace(data)
Replace(replace, data) ==
    IF replace = "mark" THEN [data EXCEPT !.marks = @ + 1]
    ELSE [data EXCEPT !.upper = TRUE]

\* filters.tag_equals(item, tag)
tag_equals(item, tag) == item.tag = tag

\* filters.tag_in(item, tags)
tag_in(item, tags) == item.tag \in tags

\* filters.field_has_any_subfields_where(field, tag_equals, tag)
field_has_any_subfields_where(h, field, tag) ==
    \E i \in 1..Len(field.subfields) : tag_equals(h.subs[field.subfields[i]], tag)

\* test(item, *args) for the tests used on subfields and on fields
Test(h, test, item) ==
    IF test.fn = "tag_equals" THEN tag_equals(item, test.tag)
    ELSE IF test.fn = "tag_in" THEN tag_in(item, test.tags)
    ELSE field_has_any_subfields_where(h, item, test.tag)

\* the tests applied to subfields: 'k' is the tag of no subfield
SubfieldTests ==
    {[fn |-> "tag_equals", tag |-> t, tags |-> {}] : t \in SubfieldTags \cup {"k"}}
    \cup {[fn |-> "tag_in", tag |-> "", tags |-> SubfieldTags]}

\* the tests applied to fields
FieldTests ==
    {[fn |-> "tag_equals", tag |-> t, tags |-> {}] : t \in FieldTags}
    \cup {[fn |-> "field_has_any_subfields_where", tag |-> t, tags |-> {}] :
             t \in SubfieldTags}

\* the address a new object of a heap table takes
NewAddr(table) == Len(table) + 1

\* Field._shallow_copy(): a new Field with the same elements, the same
\* subfield dicts among them
shallow_copy(h, f) ==
    [heap |-> [h EXCEPT !.fields = Append(@, h.fields[f])],
     ret |-> NewAddr(h.fields)]

RECURSIVE CopySubfields(_, _, _, _)
\* a copy of every subfield dict of a list
CopySubfields(subs, list, i, out) ==
    IF i > Len(list) THEN [subs |-> subs, list |-> out]
    ELSE CopySubfields(Append(subs, subs[list[i]]), list, i + 1,
                       Append(out, NewAddr(subs)))

\* Field.subfields_where that copies the subfield dicts it keeps
Field_subfields_where_CopiesSubfields(h, f, test) ==
    LET c == shallow_copy(h, f)
        kept == SelectSeq(h.fields[f].subfields, LAMBDA sf : Test(h, test, h.subs[sf]))
        copied == CopySubfields(h.subs, kept, 1, <<>>)
    IN  [heap |-> [c.heap EXCEPT !.subs = copied.subs,
                                 !.fields[c.ret].subfields = copied.list],
         ret |-> c.ret]

\* Field.subfields_where(test, *args)
Field_subfields_where(h, f, test) ==
    LET c == shallow_copy(h, f)
        kept == SelectSeq(h.fields[f].subfields, LAMBDA sf : Test(h, test, h.subs[sf]))
    IN  [heap |-> [c.heap EXCEPT !.fields[c.ret].subfields = kept], ret |-> c.ret]

\* Field.subfields_where_not(test, *args)
Field_subfields_where_not(h, f, test) ==
    LET c == shallow_copy(h, f)
        kept == SelectSeq(h.fields[f].subfields, LAMBDA sf : ~Test(h, test, h.subs[sf]))
    IN  [heap |-> [c.heap EXCEPT !.fields[c.ret].subfields = kept], ret |-> c.ret]

RECURSIVE ReplaceLoop(_, _, _, _)
\* for sub in self['subfields']: sub['data'] = replace(sub['data'])
ReplaceLoop(subs, list, i, replace) ==
    IF i > Len(list) THEN subs
    ELSE ReplaceLoop([subs EXCEPT ![list[i]].data = Replace(replace, @)],
                     list, i + 1, replace)

\* Field.replace_subfield_data(replace)
Field_replace_subfield_data(h, f, replace) ==
    [heap |-> [h EXCEPT !.subs = ReplaceLoop(@, h.fields[f].subfields, 1, replace)],
     ret |-> f]

\* type(self)(fields): a new Fieldset of the fields
NewFieldset(h, fields) ==
    [heap |-> [h EXCEPT !.sets = Append(@, fields)], ret |-> NewAddr(h.sets)]

\* Fieldset.fields_where(test, *args)
fields_where(h, fs, test) ==
    NewFieldset(h, SelectSeq(h.sets[fs], LAMBDA f : Test(h, test, h.fields[f])))

\* fields_where_not without the `not`
fields_where_not_SameAsWhere(h, fs, test) ==
    NewFieldset(h, SelectSeq(h.sets[fs], LAMBDA f : Test(h, test, h.fields[f])))

\* Fieldset.fields_where_not(test, *args)
fields_where_not(h, fs, test) ==
    NewFieldset(h, SelectSeq(h.sets[fs], LAMBDA f : ~Test(h, test, h.fields[f])))

RECURSIVE SubfieldsWhereLoop(_, _, _, _, _, _)
\* [f.subfields_where(test) for f in self], or subfields_where_not
SubfieldsWhereLoop(h, list, i, test, negate, out) ==
    IF i > Len(list) THEN [heap |-> h, fields |-> out]
    ELSE LET r == IF negate THEN Field_subfields_where_not(h, list[i], test)
                  ELSE Field_subfields_where(h, list[i], test)
         IN  SubfieldsWhereLoop(r.heap, list, i + 1, test, negate, Append(out, r.ret))

\* Fieldset.subfields_where that leaves out the Fields without a subfield
Fieldset_subfields_where_DropsEmpty(h, fs, test) ==
    LET r == SubfieldsWhereLoop(h, h.sets[fs], 1, test, FALSE, <<>>)
    IN  NewFieldset(r.heap, SelectSeq(r.fields,
                                      LAMBDA f : r.heap.fields[f].subfields # <<>>))

\* Fieldset.subfields_where(test, *args)
Fieldset_subfields_where(h, fs, test) ==
    LET r == SubfieldsWhereLoop(h, h.sets[fs], 1, test, FALSE, <<>>)
    IN  NewFieldset(r.heap, r.fields)

\* Fieldset.subfields_where_not(test, *args)
Fieldset_subfields_where_not(h, fs, test) ==
    LET r == SubfieldsWhereLoop(h, h.sets[fs], 1, test, TRUE, <<>>)
    IN  NewFieldset(r.heap, r.fields)

RECURSIVE ReplaceFieldsLoop(_, _, _, _, _)
\* [f.replace_subfield_data(replace) for f in self]
ReplaceFieldsLoop(h, list, i, replace, out) ==
    IF i > Len(list) THEN [heap |-> h, fields |-> out]
    ELSE LET r == Field_replace_subfield_data(h, list[i], replace)
         IN  ReplaceFieldsLoop(r.heap, list, i + 1, replace, Append(out, r.ret))

\* Fieldset.replace_subfield_data returning self
Fieldset_replace_subfield_data_ReturnsSelf(h, fs, replace) ==
    LET r == ReplaceFieldsLoop(h, h.sets[fs], 1, replace, <<>>)
    IN  [heap |-> r.heap, ret |-> fs]

\* Fieldset.replace_subfield_data(replace)
Fieldset_replace_subfield_data(h, fs, replace) ==
    LET r == ReplaceFieldsLoop(h, h.sets[fs], 1, replace, <<>>)
    IN  NewFieldset(r.heap, r.fields)

\* the subfield lists a factory gives a Field: tags in any order
SubfieldLists == SeqsUpTo(SubfieldTags, MaxSubs)

\* the Fields a factory makes for a record
FieldLists == SeqsUpTo([tag : FieldTags, subs : SubfieldLists], MaxFields)

\* how many subfields the fields before field i of a list have
RECURSIVE SubsBefore(_, _)
SubsBefore(fl, i) == IF i = 1 THEN 0 ELSE SubsBefore(fl, i - 1) + Len(fl[i - 1].subs)

\* the heap after a factory made the Fields of a list, every Field with
\* subfield dicts of its own, and put them in a Fieldset
FactoryHeap(fl) ==
    LET total == SubsBefore(fl, Len(fl) + 1)
        owner(a) == CHOOSE i \in 1..Len(fl) :
                        SubsBefore(fl, i) < a /\ a <= SubsBefore(fl, i) + Len(fl[i].subs)
    IN  [subs |-> [a \in 1..total |->
                     [tag |-> fl[owner(a)].subs[a - SubsBefore(fl, owner(a))],
                      data |-> Data("x")]],
         fields |-> [i \in 1..Len(fl) |->
                       [tag |-> fl[i].tag,
                        subfields |-> [j \in 1..Len(fl[i].subs) |-> SubsBefore(fl, i) + j]]],
         sets |-> <<[i \in 1..Len(fl) |-> i]>>]

\* Fieldset.__mul__: fs * 2, a Fieldset that holds every Field of fs twice
Fieldset_mul2(h, fs) == NewFieldset(h, h.sets[fs] \o h.sets[fs])

\* the Fieldset the calls are made on: the last one made
Subject == Len(fs_heap.sets)

NoCall == [fn |-> "none"]

NoHeap == [subs |-> <<>>, fields |-> <<>>, sets |-> <<>>]

NoRet == [a |-> 0, b |-> 0]

IdleFieldset ==
    /\ fs_heap = NoHeap
    /\ fs_old = NoHeap
    /\ fs_pc = "idle"
    /\ fs_call = NoCall
    /\ fs_ret = NoRet

\* a Fieldset as a factory made it, or that Fieldset times two
InitFieldset ==
    /\ \E fl \in FieldLists :
       \E twice \in BOOLEAN :
          fs_heap = IF twice THEN Fieldset_mul2(FactoryHeap(fl), 1).heap
                    ELSE FactoryHeap(fl)
    /\ fs_old = NoHeap
    /\ fs_pc = "ready"
    /\ fs_call = NoCall
    /\ fs_ret = NoRet

\* fs.fields_where(test, arg) and fs.fields_where_not(test, arg)
FieldsWhereAndWhereNot ==
    /\ fs_pc = "ready"
    /\ \E test \in FieldTests :
         LET w == fields_where(fs_heap, Subject, test)
             n == fields_where_not(w.heap, Subject, test)
         IN  /\ fs_heap' = n.heap
             /\ fs_ret' = [a |-> w.ret, b |-> n.ret]
             /\ fs_call' = [fn |-> "fields_where", on |-> Subject, test |-> test]
    /\ fs_old' = fs_heap
    /\ fs_pc' = "fields_where"
    /\ UNCHANGED <<expVars, jobVars, cvVars, cmpVars, exVars, srtVars, bibVars, cnvVars, shVars, relVars>>

\* fs.subfields_where(test, arg)
SubfieldsWhere ==
    /\ fs_pc = "ready"
    /\ \E test \in SubfieldTests :
         LET r == Fieldset_subfields_where(fs_heap, Subject, test)
         IN  /\ fs_heap' = r.heap
             /\ fs_ret' = [a |-> r.ret, b |-> 0]
             /\ fs_call' = [fn |-> "subfields_where", on |-> Subject, test |-> test]
    /\ fs_old' = fs_heap
    /\ fs_pc' = "subfields_where"
    /\ UNCHANGED <<expVars, jobVars, cvVars, cmpVars, exVars, srtVars, bibVars, cnvVars, shVars, relVars>>

\* fs.subfields_where_not(test, arg)
SubfieldsWhereNot ==
    /\ fs_pc = "ready"
    /\ \E test \in SubfieldTests :
         LET r == Fieldset_subfields_where_not(fs_heap, Subject, test)
         IN  /\ fs_heap' = r.heap
             /\ fs_ret' = [a |-> r.ret, b |-> 0]
             /\ fs_call' = [fn |-> "subfields_where_not", on |-> Subject, test |-> test]
    /\ fs_old' = fs_heap
    /\ fs_pc' = "subfields_where_not"
    /\ UNCHANGED <<expVars, jobVars, cvVars, cmpVars, exVars, srtVars, bibVars, cnvVars, shVars, relVars>>

\* fs.subfields_where(tag_equals, X).replace_subfield_data(replace)
FilterThenReplaceFieldset ==
    /\ fs_pc = "ready"
    /\ \E tag \in SubfieldTags, replace \in ReplaceFunctions :
         LET test == [fn |-> "tag_equals", tag |-> tag, tags |-> {}]
             w == Fieldset_subfields_where(fs_heap, Subject, test)
             r == Fieldset_replace_subfield_data(w.heap, w.ret, replace)
         IN  /\ fs_heap' = r.heap
             /\ fs_ret' = [a |-> r.ret, b |-> w.ret]
             /\ fs_call' = [fn |-> "filter_replace", on |-> Subject, test |-> test,
                            replace |-> replace]
    /\ fs_old' = fs_heap
    /\ fs_pc' = "filter_replace_fieldset"
    /\ UNCHANGED <<expVars, jobVars, cvVars, cmpVars, exVars, srtVars, bibVars, cnvVars, shVars, relVars>>

\* field.subfields_where(tag_equals, X).replace_subfield_data(replace)
FilterThenReplaceField ==
    /\ fs_pc = "ready"
    /\ \E f \in Range(fs_heap.sets[Subject]) :
       \E tag \in SubfieldTags, replace \in ReplaceFunctions :
         LET test == [fn |-> "tag_equals", tag |-> tag, tags |-> {}]
             w == Field_subfields_where(fs_heap, f, test)
             r == Field_replace_subfield_data(w.heap, w.ret, replace)
         IN  /\ fs_heap' = r.heap
             /\ fs_ret' = [a |-> r.ret, b |-> w.ret]
             /\ fs_call' = [fn |-> "filter_replace", on |-> f, test |-> test,
                            replace |-> replace]
    /\ fs_old' = fs_heap
    /\ fs_pc' = "filter_replace_field"
    /\ UNCHANGED <<expVars, jobVars, cvVars, cmpVars, exVars, srtVars, bibVars, cnvVars, shVars, relVars>>

\* fs.replace_subfield_data(replace)
ReplaceInFieldset ==
    /\ fs_pc = "ready"
    /\ \E replace \in ReplaceFunctions :
         LET r == Fieldset_replace_subfield_data(fs_heap, Subject, replace)
         IN  /\ fs_heap' = r.heap
             /\ fs_ret' = [a |-> r.ret, b |-> 0]
             /\ fs_call' = [fn |-> "replace_subfield_data", on |-> Subject,
                            replace |-> replace]
    /\ fs_old' = fs_heap
    /\ fs_pc' = "replace_fieldset"
    /\ UNCHANGED <<expVars, jobVars, cvVars, cmpVars, exVars, srtVars, bibVars, cnvVars, shVars, relVars>>

\* field.replace_subfield_data(replace)
ReplaceInField ==
    /\ fs_pc = "ready"
    /\ \E f \in Range(fs_heap.sets[Subject]) :
       \E replace \in ReplaceFunctions :
         LET r == Field_replace_subfield_data(fs_heap, f, replace)
         IN  /\ fs_heap' = r.heap
             /\ fs_ret' = [a |-> r.ret, b |-> 0]
             /\ fs_call' = [fn |-> "replace_subfield_data", on |-> f,
                            replace |-> replace]
    /\ fs_old' = fs_heap
    /\ fs_pc' = "replace_field"
    /\ UNCHANGED <<expVars, jobVars, cvVars, cmpVars, exVars, srtVars, bibVars, cnvVars, shVars, relVars>>

NextFieldset ==
    \/ FieldsWhereAndWhereNot
    \/ SubfieldsWhere
    \/ SubfieldsWhereNot
    \/ FilterThenReplaceFieldset
    \/ FilterThenReplaceField
    \/ ReplaceInFieldset
    \/ ReplaceInField

(***************************************************************************)
(* blacklight/marcfieldset/fieldset.py: Fieldset.get_sorted                *)
(***************************************************************************)
\* Tags are three-digit strings, which compare as their numbers do.
SortTags == {100, 245}

\* Fieldsets of distinct Field objects; a Field as get_sorted sees it: which
\* object it is (the i-th Field is object i), its tag and its occurrence.
SortFieldsets ==
    UNION {{[i \in 1..n |-> [id |-> i, tag |-> f[i].tag, occurrence |-> f[i].occurrence]] :
               f \in [1..n -> [tag : SortTags, occurrence : 0..MaxOccurrence]]} :
           n \in 0..MaxSortFields}

\* the element names Fields have, and one that no Field has
SortElements == {"tag", "occurrence"}
UnknownElement == "what"

\* the key argument: None, or a function of the caller's
SortKeys == {"None", "by_occurrence"}

\* x.get(el, 0)
Field_get(x, el) ==
    IF el = "tag" THEN x.tag
    ELSE IF el = "occurrence" THEN x.occurrence
    ELSE 0

RECURSIVE ListLess(_, _)
\* a < b for two lists, as Python compares lists
ListLess(a, b) ==
    IF b = <<>> THEN FALSE
    ELSE IF a = <<>> THEN TRUE
    ELSE IF Head(a) < Head(b) THEN TRUE
    ELSE IF Head(b) < Head(a) THEN FALSE
    ELSE ListLess(Tail(a), Tail(b))

\* the key function get_sorted sorts by
SortKey(x, elements, key) ==
    IF key = "None"
    THEN [i \in 1..Len(elements) |-> Field_get(x, elements[i])]
    ELSE <<x.occurrence>>

RECURSIVE sorted(_, _, _, _, _)
\* sorted(fields, key=key, reverse=reverse): stable, Fields with equal keys
\* keep their order, also when reverse is set.  `done` is the sorted prefix.
sorted(fields, elements, key, reverse, done) ==
    IF fields = <<>> THEN done
    ELSE
      LET x == Head(fields)
          Before(e) == IF reverse
                       THEN ListLess(SortKey(e, elements, key), SortKey(x, elements, key))
                       ELSE ListLess(SortKey(x, elements, key), SortKey(e, elements, key))
          p == Cardinality({i \in 1..Len(done) : ~Before(done[i])})
      IN  sorted(Tail(fields), elements, key, reverse,
                 SubSeq(done, 1, p) \o <<x>> \o SubSeq(done, p + 1, Len(done)))

\* get_sorted that sorts the Fieldset itself and returns it
get_sorted_InPlace(self, elements, key, reverse) ==
    LET els == IF elements = <<>> THEN <<"tag">> ELSE elements
        r == sorted(self, els, key, reverse, <<>>)
    IN  [self |-> r, ret |-> r]

\* Fieldset.get_sorted(elements, key, reverse): `elements or ['tag']`, then
\* a new Fieldset of sorted(self, ...).  An empty list and None are both
\* replaced by ['tag'].
get_sorted(self, elements, key, reverse) ==
    LET els == IF elements = <<>> THEN <<"tag">> ELSE elements
    IN  [self |-> self, ret |-> sorted(self, els, key, reverse, <<>>)]

\* `elements` with the unknown name put in at position `at`
WithExtra(elements, at) ==
    SubSeq(elements, 1, at - 1) \o <<UnknownElement>> \o SubSeq(elements, at, Len(elements))

NoSortCall == [elements |-> <<>>, at |-> 0, key |-> "None", reverse |-> FALSE]

IdleSort ==
    /\ srt_fs = <<>>
    /\ srt_old = <<>>
    /\ srt_pc = "idle"
    /\ srt_call = NoSortCall
    /\ srt_ret = <<>>

InitSort ==
    /\ srt_fs \in SortFieldsets
    /\ srt_old = srt_fs
    /\ srt_pc = "ready"
    /\ srt_call = NoSortCall
    /\ srt_ret = <<>>

\* fs.get_sorted(elements, ...) and then fs.get_sorted(elements with a name
\* that no Field has, ...)
GetSorted ==
    /\ srt_pc = "ready"
    /\ \E elements \in SeqsUpTo(SortElements, MaxElements), key \in SortKeys,
          reverse \in BOOLEAN :
         \E at \in 1..(Len(elements) + 1) :
           LET one == get_sorted(srt_fs, elements, key, reverse)
               two == get_sorted(one.self, WithExtra(elements, at), key, reverse)
           IN  /\ srt_fs' = two.self
               /\ srt_ret' = <<one.ret, two.ret>>
               /\ srt_call' = [elements |-> elements, at |-> at, key |-> key,
                               reverse |-> reverse]
    /\ srt_pc' = "get_sorted"
    /\ UNCHANGED srt_old
    /\ UNCHANGED <<expVars, jobVars, cvVars, cmpVars, exVars, fsVars, bibVars, cnvVars, shVars, relVars>>

NextSort == GetSorted

(***************************************************************************)
(* blacklight/sierrabibstractor.py: the Fields extracted from a BibRecord  *)
(***************************************************************************)
\* A tag: 'LDR', or three digits, kept as their number.
LDR == [kind |-> "LDR", num |-> 0]
NumTag(n) == [kind |-> "num", num |-> n]

\* field_content: a string, one character per entry
ContentChars == {"|", "a"}
Contents == SeqsUpTo(ContentChars, MaxContent)

\* the rows of the varfield table: 001-005 are stored there too
VarfieldRows ==
    [marc_tag : {5, 245}, field_content : Contents, occ_num : {0},
     marc_ind1 : {" "}, marc_ind2 : {"1"}]

\* the rows of the control field table (006, 007, 008), as some bibs have them
ControlfieldLists ==
    {<<>>, <<[control_num |-> 7, occ_num |-> 0]>>,
     <<[control_num |-> 6, occ_num |-> 0], [control_num |-> 8, occ_num |-> 0]>>}

BibRecords ==
    [leader : BOOLEAN, controlfields : ControlfieldLists,
     varfields : SeqsUpTo(VarfieldRows, MaxVarfields)]

NoIndicators == <<"None", "None">>

\* mfs.Field({...}): `keys` are the keys the dict has; `data` is "" when the
\* dict has no 'data' key
Field(tag, keys, data, indicators, subfields, occurrence) ==
    [tag |-> tag, keys |-> keys, data |-> data, indicators |-> indicators,
     subfields |-> subfields, occurrence |-> occurrence]

Extracted(raised, fields, fixed) ==
    [raised |-> raised, fields |-> fields, fixed |-> fixed]

\* extract_leader(bib): with no leader row the IndexError is passed over and
\* `ldr` stays unbound; the format call that follows reads it.
extract_leader(bib) ==
    IF ~bib.leader
    THEN Extracted("UnboundLocalError", <<>>, FALSE)
    ELSE Extracted("none",
             <<Field(LDR, {"tag", "data", "indicators", "subfields", "occurrence"},
                     "leader", NoIndicators, <<>>, 0)>>, FALSE)

\* extract_controlfields(bib)
extract_controlfields(bib) ==
    Extracted("none",
        [i \in 1..Len(bib.controlfields) |->
            Field(NumTag(bib.controlfields[i].control_num),
                  {"tag", "data", "indicators", "subfields", "occurrence"},
                  "control", NoIndicators, <<>>, bib.controlfields[i].occ_num)],
        FALSE)

RECURSIVE split(_, _)
\* data.split('|'): the parts between the delimiters; `part` is the part
\* being read
split(data, part) ==
    IF data = <<>> THEN <<part>>
    ELSE IF Head(data) = "|" THEN <<part>> \o split(Tail(data), <<>>)
    ELSE split(Tail(data), Append(part, Head(data)))

\* _split_field_data_into_subfields(data): p[0] of an empty part raises
\* IndexError
split_field_data_into_subfields(data) ==
    LET parts == split(data, <<>>)
        rest == Tail(parts)
    IN  IF \E i \in 1..Len(rest) : rest[i] = <<>>
        THEN [raised |-> "IndexError", subfields |-> <<>>]
        ELSE [raised |-> "none",
              subfields |-> [i \in 1..Len(rest) |->
                                [tag |-> Head(rest[i]), data |-> Tail(rest[i])]]]

RECURSIVE VarfieldsLoop(_, _, _)
\* the for loop of extract_varfields
VarfieldsLoop(rows, i, fields) ==
    IF i > Len(rows) THEN Extracted("none", fields, FALSE)
    ELSE
      LET vf == rows[i]
          parsed == split_field_data_into_subfields(vf.field_content)
      IN  IF vf.marc_tag >= 10
          THEN IF parsed.raised # "none"
               THEN Extracted(parsed.raised, <<>>, FALSE)
               ELSE VarfieldsLoop(rows, i + 1,
                        Append(fields,
                            Field(NumTag(vf.marc_tag),
                                  {"tag", "indicators", "subfields", "occurrence"},
                                  "", <<vf.marc_ind1, vf.marc_ind2>>,
                                  parsed.subfields, vf.occ_num)))
          ELSE VarfieldsLoop(rows, i + 1,
                   Append(fields,
                       Field(NumTag(vf.marc_tag),
                             {"tag", "indicators", "subfields", "occurrence"},
                             "", NoIndicators, <<>>, vf.occ_num)))

\* extract_varfields that gives every row indicators and subfields
extract_varfields_AllRowsParsed(bib) ==
    Extracted("none",
        [i \in 1..Len(bib.varfields) |->
            Field(NumTag(bib.varfields[i].marc_tag),
                  {"tag", "indicators", "subfields", "occurrence"}, "",
                  <<bib.varfields[i].marc_ind1, bib.varfields[i].marc_ind2>>,
                  <<>>, bib.varfields[i].occ_num)],
        FALSE)

\* extract_varfields(bib)
extract_varfields(bib) == VarfieldsLoop(bib.varfields, 1, <<>>)

\* extract(bib): the leader, then the control fields, then the varfields,
\* then the fixed fields (their rows are taken to exist)
extract(bib) ==
    LET l == extract_leader(bib)
        c == extract_controlfields(bib)
        v == extract_varfields(bib)
    IN  IF l.raised # "none" THEN l
        ELSE IF v.raised # "none" THEN v
        ELSE Extracted("none", l.fields \o c.fields \o v.fields, TRUE)

NoBib == [leader |-> FALSE, controlfields |-> <<>>, varfields |-> <<>>]
NotExtracted == Extracted("none", <<>>, FALSE)

IdleBib ==
    /\ bib_rec = NoBib
    /\ bib_pc = "idle"
    /\ bib_ret = NotExtracted

InitBib ==
    /\ bib_rec \in BibRecords
    /\ bib_pc = "ready"
    /\ bib_ret = NotExtracted

ExtractLeader ==
    /\ bib_pc = "ready"
    /\ bib_ret' = extract_leader(bib_rec)
    /\ bib_pc' = "extract_leader"
    /\ UNCHANGED bib_rec
    /\ UNCHANGED <<expVars, jobVars, cvVars, cmpVars, exVars, fsVars, srtVars, cnvVars, shVars, relVars>>

ExtractControlfields ==
    /\ bib_pc = "ready"
    /\ bib_ret' = extract_controlfields(bib_rec)
    /\ bib_pc' = "extract_controlfields"
    /\ UNCHANGED bib_rec
    /\ UNCHANGED <<expVars, jobVars, cvVars, cmpVars, exVars, fsVars, srtVars, cnvVars, shVars, relVars>>

ExtractVarfields ==
    /\ bib_pc = "ready"
    /\ bib_ret' = extract_varfields(bib_rec)
    /\ bib_pc' = "extract_varfields"
    /\ UNCHANGED bib_rec
    /\ UNCHANGED <<expVars, jobVars, cvVars, cmpVars, exVars, fsVars, srtVars, cnvVars, shVars, relVars>>

Extract ==
    /\ bib_pc = "ready"
    /\ bib_ret' = extract(bib_rec)
    /\ bib_pc' = "extract"
    /\ UNCHANGED bib_rec
    /\ UNCHANGED <<expVars, jobVars, cvVars, cmpVars, exVars, fsVars, srtVars, cnvVars, shVars, relVars>>

NextBib ==
    \/ ExtractLeader
    \/ ExtractControlfields
    \/ ExtractVarfields
    \/ Extract

(***************************************************************************)
(* blacklight/record_converters.py and field_converters.py: a bib through  *)
(* the bib field map and the solr field map of exporters_blmarc.py         *)
(***************************************************************************)
\* A MARC field of the extracted bib: a 100 field with the surname its $a
\* and the dates its $d hold, or a 245 field, which holds neither.
MarcFields ==
    [tag : {"100"}, surname : {"", "A", "B"}, dates : {"", "1788-1824"}]
        \cup [tag : {"245"}, surname : {""}, dates : {""}]

\* sierrabibstractor.extract(rec): the record id of the fixed fields and
\* the marcfields
ExtractedBibs ==
    [fixedfields : [record_id : {1}],
     marcfields : SeqsUpTo(MarcFields, MaxMarcFields)]

\* a string, or None
NoStr == [none |-> TRUE, str |-> ""]

Str(str) == [none |-> FALSE, str |-> str]

\* sierraitemstractor.extract(item): the barcodes, the location and the
\* call number with its type; an item with no call number of its own or of
\* its bib has None for both (extract_callnumber)
ExtractedItems ==
    {[barcodes |-> <<>>, location_code |-> "none", location_name |-> "None",
      callnumber |-> NoStr, callnumber_type |-> NoStr],
     [barcodes |-> <<"b1">>, location_code |-> "w", location_name |-> "Willis",
      callnumber |-> Str(""), callnumber_type |-> Str("lc")],
     [barcodes |-> <<"b1", "b2">>, location_code |-> "w", location_name |-> "Willis",
      callnumber |-> Str(" PS 1 "), callnumber_type |-> Str("lc")]}

\* a bib record as SierraBibToUntbib.convert reads it: the extracted bib and
\* the extracted items linked to it
ConvertInputs ==
    [bib : ExtractedBibs, items : SeqsUpTo(ExtractedItems, MaxItems)]

\* person_author is None
NoAuthor == [none |-> TRUE, surname |-> "", forename |-> "", full_dates |-> ""]

\* parsers.person_name on a 100 field: the surname of the field, no forename
person_name(field) == [surname |-> field.surname, forename |-> ""]

\* parsers.person_dates on a 100 field: the dates of the field
person_dates(field) == [full_dates |-> field.dates]

\* parsers.untbib_person_get_name_straight
untbib_person_get_name_straight(author) ==
    CASE author.surname = "A" -> "A straight"
      [] author.surname = "B" -> "B straight"
      [] OTHER -> "straight"

\* parsers.untbib_person_get_name_inverted
untbib_person_get_name_inverted(author) ==
    CASE author.surname = "A" -> "A inverted"
      [] author.surname = "B" -> "B inverted"
      [] OTHER -> "inverted"

\* parsers.untbib_person_get_fullname
untbib_person_get_fullname(author) ==
    CASE author.surname = "A" -> "A full"
      [] author.surname = "B" -> "B full"
      [] OTHER -> "full"

\* str.strip() on the call numbers of ExtractedItems
strip(str) == IF str = " PS 1 " THEN "PS 1" ELSE str

\* pycn.callnumber(str).for_sort(): the sort form of a call number, a string
\* made from the call number
for_sort(str) == "for_sort(" \o str \o ")"

\* in_data['bib']['fixedfields']['record_id']
sierrabib_to_record_id(in_data) == in_data.bib.fixedfields.record_id

\* out_data after the three updates from the parsers (no titles)
PersonAuthor(field) ==
    [none |-> FALSE,
     surname |-> person_name(field).surname,
     forename |-> person_name(field).forename,
     full_dates |-> person_dates(field).full_dates]

\* sierrabib_to_person_author that takes the last 100 field
sierrabib_to_person_author_LastField(in_data) ==
    LET found == SelectSeq(in_data.bib.marcfields, LAMBDA f : f.tag = "100")
    IN  IF found = <<>> THEN NoAuthor ELSE PersonAuthor(found[Len(found)])

\* sierrabib_to_person_author(in_data): fields_where(tag_equals, '100')[0];
\* None when that raises IndexError
sierrabib_to_person_author(in_data) ==
    LET found == SelectSeq(in_data.bib.marcfields, LAMBDA f : f.tag = "100")
    IN  IF found = <<>> THEN NoAuthor ELSE PersonAuthor(found[1])

\* sierrabib_to_contributors(in_data): the placeholder list
sierrabib_to_contributors(in_data) == <<[name |-> "PLACEHOLDER"]>>

\* itemrecord_to_barcode(in_data): item['barcodes'][0]; None when that
\* raises IndexError
itemrecord_to_barcode(in_data) ==
    IF in_data.item.barcodes = <<>> THEN NoStr ELSE Str(in_data.item.barcodes[1])

itemrecord_to_location(in_data) ==
    [code |-> in_data.item.location_code, name |-> in_data.item.location_name]

itemrecord_to_callnumber(in_data) ==
    [display |-> in_data.item.callnumber, type |-> in_data.item.callnumber_type]

untbib_to_id(untbib) == untbib.record_id

untbib_to_person_author_search_fullname_forms(untbib) ==
    LET author == untbib.person_author
    IN  IF author.none THEN <<>>
        ELSE <<untbib_person_get_name_straight(author),
               untbib_person_get_name_inverted(author),
               untbib_person_get_fullname(author)>>

\* '{}{}'.format(forename, ' '.join(titles)) of no titles is the forename
untbib_to_person_author_search_bestname(untbib) ==
    LET author == untbib.person_author
    IN  IF author.none THEN ""
        ELSE IF author.surname # "" THEN author.surname
        ELSE author.forename

untbib_to_person_author_display(untbib) ==
    LET author == untbib.person_author
    IN  IF author.none THEN "" ELSE untbib_person_get_fullname(author)

\* the inverted name, followed by ' (full_dates)' when there are dates
untbib_to_person_author_facet(untbib) ==
    LET author == untbib.person_author
        name == untbib_person_get_name_inverted(author)
    IN  IF author.none THEN ""
        ELSE IF author.full_dates # ""
        THEN name \o " (" \o author.full_dates \o ")"
        ELSE name

\* `if item['callnumber']['display']`: neither None nor ''
HasDisplay(item) == ~item.callnumber.display.none /\ item.callnumber.display.str # ""

\* untbib_to_callnumbers_display(untbib): the display call number of every
\* item, '' for an item without one
untbib_to_callnumbers_display(untbib) ==
    [i \in 1..Len(untbib.items) |->
        IF HasDisplay(untbib.items[i])
        THEN untbib.items[i].callnumber.display.str
        ELSE ""]

\* untbib_to_callnumbers_normalized(untbib): the sort form of the stripped
\* display call number of every item, '' for an item without one
untbib_to_callnumbers_normalized(untbib) ==
    [i \in 1..Len(untbib.items) |->
        IF HasDisplay(untbib.items[i])
        THEN for_sort(strip(untbib.items[i].callnumber.display.str))
        ELSE ""]

\* convert_field(in_data) for the function named fn
ConvertField(fn, in_data) ==
    CASE fn = "sierrabib_to_record_id" -> sierrabib_to_record_id(in_data)
      [] fn = "sierrabib_to_person_author" -> sierrabib_to_person_author(in_data)
      [] fn = "sierrabib_to_contributors" -> sierrabib_to_contributors(in_data)
      [] fn = "itemrecord_to_barcode" -> itemrecord_to_barcode(in_data)
      [] fn = "itemrecord_to_location" -> itemrecord_to_location(in_data)
      [] fn = "itemrecord_to_callnumber" -> itemrecord_to_callnumber(in_data)
      [] fn = "untbib_to_id" -> untbib_to_id(in_data)
      [] fn = "untbib_to_person_author_search_fullname_forms" ->
            untbib_to_person_author_search_fullname_forms(in_data)
      [] fn = "untbib_to_person_author_search_bestname" ->
            untbib_to_person_author_search_bestname(in_data)
      [] fn = "untbib_to_person_author_display" ->
            untbib_to_person_author_display(in_data)
      [] fn = "untbib_to_person_author_facet" ->
            untbib_to_person_author_facet(in_data)
      [] fn = "untbib_to_callnumbers_display" ->
            untbib_to_callnumbers_display(in_data)
      [] fn = "untbib_to_callnumbers_normalized" ->
            untbib_to_callnumbers_normalized(in_data)

\* the field maps of BibsToBlacklightMarc (exporters_blmarc.py), as declared
bibfield_map ==
    <<[fname |-> "record_id", fn |-> "sierrabib_to_record_id"],
      [fname |-> "person_author", fn |-> "sierrabib_to_person_author"],
      [fname |-> "contributors", fn |-> "sierrabib_to_contributors"]>>

itemfield_map ==
    <<[fname |-> "barcode", fn |-> "itemrecord_to_barcode"],
      [fname |-> "location", fn |-> "itemrecord_to_location"],
      [fname |-> "callnumber", fn |-> "itemrecord_to_callnumber"]>>

solrfield_map ==
    <<[fname |-> "id", fn |-> "untbib_to_id"],
      [fname |-> "person_author_search_fullname_forms",
       fn |-> "untbib_to_person_author_search_fullname_forms"],
      [fname |-> "person_author_search_bestname",
       fn |-> "untbib_to_person_author_search_bestname"],
      [fname |-> "person_author_display", fn |-> "untbib_to_person_author_display"],
      [fname |-> "person_author_facet", fn |-> "untbib_to_person_author_facet"],
      [fname |-> "callnumbers_display", fn |-> "untbib_to_callnumbers_display"],
      [fname |-> "callnumbers_normalized",
       fn |-> "untbib_to_callnumbers_normalized"]>>

\* the orders in which iteritems may walk a table
TableOrders(table) == Permutations(1..Len(table))

\* the order of the declaration
Declared(table) == [i \in 1..Len(table) |-> i]

Walked(table, order) == [i \in 1..Len(table) |-> table[order[i]]]

RECURSIVE RecordConverterLoop(_, _, _, _)
\* the for loop of RecordConverter.convert
RecordConverterLoop(field_converters, in_data, i, output) ==
    IF i > Len(field_converters) THEN output
    ELSE RecordConverterLoop(field_converters, in_data, i + 1,
             Put(output, field_converters[i].fname,
                 ConvertField(field_converters[i].fn, in_data)))

\* RecordConverter.convert that stops at the first entry of the table
RecordConverter_convert_FirstEntryOnly(field_converters, in_data) ==
    Put(NoEntries, field_converters[1].fname,
        ConvertField(field_converters[1].fn, in_data))

\* RecordConverter.convert(in_data)
RecordConverter_convert(field_converters, in_data) ==
    RecordConverterLoop(field_converters, in_data, 1, NoEntries)

\* SierraBibToUntbib.convert(rec): the bib fields, then under 'items' the
\* item fields of every linked item; iteritems walks the bib table in
\* `order` and the item table in `iorder`
SierraBibToUntbib_convert(rec, order, iorder) ==
    LET bib_fields == RecordConverter_convert(Walked(bibfield_map, order),
                                              [bib |-> rec.bib])
        items == [i \in 1..Len(rec.items) |->
                     RecordConverter_convert(Walked(itemfield_map, iorder),
                                             [bib |-> rec.bib, item |-> rec.items[i]])]
    IN  Put(bib_fields, "items", items)

\* UntbibToSolr.convert(rec), iteritems walking the table in `order`
UntbibToSolr_convert(untbib, order) ==
    RecordConverter_convert(Walked(solrfield_map, order), untbib)

NoBibIn ==
    [bib |-> [fixedfields |-> [record_id |-> 0], marcfields |-> <<>>], items |-> <<>>]

IdleConvert ==
    /\ cnv_in = NoBibIn
    /\ cnv_pc = "idle"
    /\ cnv_order = <<>>
    /\ cnv_untbib = <<>>
    /\ cnv_solr = <<>>

\* The first stage starts ("ready") from any bib record.  The second stage
\* starts ("untbib") from the untbib the first stage makes of a bib record
\* of at most one MARC field: the author of an untbib is made from the
\* first 100 field alone, so these are all the untbibs there are.
InitConvert ==
    /\ cnv_in \in ConvertInputs
    /\ cnv_order = <<>>
    /\ cnv_solr = <<>>
    /\ \/ cnv_pc = "ready" /\ cnv_untbib = <<>>
       \/ /\ Len(cnv_in.bib.marcfields) <= 1
          /\ cnv_pc = "untbib"
          /\ cnv_untbib =
               <<SierraBibToUntbib_convert(cnv_in, Declared(bibfield_map),
                                           Declared(itemfield_map)),
                 SierraBibToUntbib_convert(cnv_in, Declared(bibfield_map),
                                           Declared(itemfield_map))>>

\* self.sierrabib_to_untbib.convert(rec), with the tables as declared and
\* with the tables in the order iteritems walks them
BibConvert ==
    /\ cnv_pc = "ready"
    /\ \E order \in TableOrders(bibfield_map) :
       \E iorder \in TableOrders(itemfield_map) :
         /\ cnv_order' = order
         /\ cnv_untbib' = <<SierraBibToUntbib_convert(cnv_in, Declared(bibfield_map),
                                                      Declared(itemfield_map)),
                            SierraBibToUntbib_convert(cnv_in, order, iorder)>>
    /\ cnv_pc' = "converted"
    /\ UNCHANGED <<cnv_in, cnv_solr>>
    /\ UNCHANGED <<expVars, jobVars, cvVars, cmpVars, exVars, fsVars, srtVars, bibVars, shVars, relVars>>
\* self.untbib_to_solr.convert(untbib) on an untbib of the first stage
SolrConvert ==
    /\ cnv_pc = "untbib"
    /\ \E order \in TableOrders(solrfield_map) :
         /\ cnv_order' = order
         /\ cnv_solr' = <<UntbibToSolr_convert(cnv_untbib[2], Declared(solrfield_map)),
                          UntbibToSolr_convert(cnv_untbib[2], order)>>
    /\ cnv_pc' = "solr"
    /\ UNCHANGED <<cnv_in, cnv_untbib>>
    /\ UNCHANGED <<expVars, jobVars, cvVars, cmpVars, exVars, fsVars, srtVars, bibVars, shVars, relVars>>
NextConvert ==
    \/ BibConvert
    \/ SolrConvert

(***************************************************************************)
(* export/exporter.py Exporter.__init__(..., options={}) and               *)
(* blacklight/exporters.py BaseBibsDownloadMarc.export_records(..., vals={})*)
(* on two instances in one process                                         *)
(***************************************************************************)
Instances == {"A", "B"}

\* The dict objects.  A default argument is one object, made when the def
\* statement runs; a caller that passes its own dict passes a new one.
OptionsDefault == "Exporter.__init__ options={}"
ValsDefault == "BaseBibsDownloadMarc.export_records vals={}"
OwnOptions(i) == IF i = "A" THEN "options of A's caller" ELSE "options of B's caller"
OwnVals(i) == IF i = "A" THEN "vals of A's caller" ELSE "vals of B's caller"
DictIds ==
    {OptionsDefault, ValsDefault} \cup {OwnOptions(i) : i \in Instances}
        \cup {OwnVals(i) : i \in Instances}

\* a dict: the keys it has, and their values (0 for a key it has not)
EmptyDict == [keys |-> {}, latest_time |-> 0, marcfile |-> 0, success_count |-> 0]

NoInstance == [constructed |-> FALSE, export_filter |-> "none", options |-> "none"]

\* Exporter.__init__: self.options = options, and with the filter
\* 'last_export' self.options['latest_time'] = latest.timestamp.  `own`:
\* the caller passes a dict of its own (a new, empty one).
ExporterInitOptions(dicts, i, export_filter, own, latest) ==
    LET ref == IF own THEN OwnOptions(i) ELSE OptionsDefault
        start == IF own THEN EmptyDict ELSE dicts[ref]
    IN  [options |-> ref,
         dicts |-> IF export_filter = "last_export"
                   THEN [dicts EXCEPT ![ref] =
                            [start EXCEPT !.keys = @ \cup {"latest_time"},
                                          !.latest_time = latest]]
                   ELSE [dicts EXCEPT ![ref] = start]]

\* BaseBibsDownloadMarc.export_records(records, vals): writes the batch to
\* vals['marcfile'] or to a new file, whose name it stores; adds the
\* batch's success_count.  An IOError is logged and vals is left alone.
DownloadMarcExportRecords(dicts, i, own, io_error, success_count, new_file) ==
    LET ref == IF own THEN OwnVals(i) ELSE ValsDefault
        start == IF own THEN EmptyDict ELSE dicts[ref]
        filed == IF "marcfile" \in start.keys THEN start
                 ELSE [start EXCEPT !.keys = @ \cup {"marcfile"},
                                    !.marcfile = new_file]
        counted == IF "success_count" \in filed.keys
                   THEN [filed EXCEPT !.success_count = @ + success_count]
                   ELSE [filed EXCEPT !.keys = @ \cup {"success_count"},
                                      !.success_count = success_count]
    IN  [ret |-> ref,
         new_file |-> ~io_error /\ "marcfile" \notin start.keys,
         dicts |-> IF io_error THEN [dicts EXCEPT ![ref] = start]
                   ELSE [dicts EXCEPT ![ref] = counted]]

IdleShared ==
    /\ sh_pc = "idle"
    /\ sh_dicts = [d \in DictIds |-> EmptyDict]
    /\ sh_inst = [i \in Instances |-> NoInstance]
    /\ sh_ret = [i \in Instances |-> "none"]
    /\ sh_actor = "none"
    /\ sh_exports = 0
    /\ sh_files = 0

\* a process that has run no exporter yet
InitShared ==
    /\ sh_pc = "running"
    /\ sh_dicts = [d \in DictIds |-> EmptyDict]
    /\ sh_inst = [i \in Instances |-> NoInstance]
    /\ sh_ret = [i \in Instances |-> "none"]
    /\ sh_actor = "none"
    /\ sh_exports = 0
    /\ sh_files = 0

\* Exporter.__init__ of instance i; `latest` is the timestamp of the latest
\* successful export of the type at that moment
ConstructExporter(i) ==
    /\ sh_pc = "running"
    /\ ~sh_inst[i].constructed
    /\ \E export_filter \in {"full_export", "last_export"}, own \in BOOLEAN,
          latest \in 1..MaxTime :
         LET r == ExporterInitOptions(sh_dicts, i, export_filter, own, latest)
         IN  /\ sh_dicts' = r.dicts
             /\ sh_inst' = [sh_inst EXCEPT ![i] =
                              [constructed |-> TRUE, export_filter |-> export_filter,
                               options |-> r.options]]
    /\ sh_actor' = i
    /\ UNCHANGED <<sh_pc, sh_ret, sh_exports, sh_files>>
    /\ UNCHANGED <<expVars, jobVars, cvVars, cmpVars, exVars, fsVars, srtVars, bibVars, cnvVars, relVars>>

\* export_records of instance i on one batch
ExportRecordsToMarc(i) ==
    /\ sh_pc = "running"
    /\ sh_inst[i].constructed
    /\ sh_exports < MaxExports
    /\ \E own \in BOOLEAN, io_error \in BOOLEAN, success_count \in 0..1 :
         LET r == DownloadMarcExportRecords(sh_dicts, i, own, io_error,
                                            success_count, sh_files + 1)
         IN  /\ sh_dicts' = r.dicts
             /\ sh_ret' = [sh_ret EXCEPT ![i] = r.ret]
             /\ sh_files' = IF r.new_file THEN sh_files + 1 ELSE sh_files
    /\ sh_actor' = i
    /\ sh_exports' = sh_exports + 1
    /\ UNCHANGED <<sh_pc, sh_inst>>
    /\ UNCHANGED <<expVars, jobVars, cvVars, cmpVars, exVars, fsVars, srtVars, bibVars, cnvVars, relVars>>

NextShared ==
    \/ \E i \in Instances : ConstructExporter(i)
    \/ \E i \in Instances : ExportRecordsToMarc(i)

(***************************************************************************)
(* export/exporter.py: CompoundMixin.combine_lists,                        *)
(* combine_rels_from_children and AttachedRecordExporter.prefetch_related  *)
(***************************************************************************)
\* A relation path: '<rel_prefix>__<rel>', or the rel alone with no prefix.
Path(prefix, rel) == [prefix |-> prefix, rel |-> rel]

\* the place of a path in the order of strings: 'p__x' < 'p__y' < 'x' < 'y'
PathRank(p) ==
    (IF p.prefix = "" THEN 2 ELSE 0) + (IF p.rel = "x" THEN 1 ELSE 2)

\* a select_related or prefetch_related attribute: None, or a list of rels
NoRels == [none |-> TRUE, rels |-> <<>>]
RelList(rels) == [none |-> FALSE, rels |-> rels]

\* select_related is None unless the exporter class sets it;
\* prefetch_related is a list
SelectRelatedValues == {NoRels, RelList(<<>>), RelList(<<"x">>), RelList(<<"x", "y">>)}
PrefetchRelatedValues == {RelList(<<>>), RelList(<<"x">>), RelList(<<"y">>)}

ChildExporters ==
    [rel_prefix : {"", "p"}, select_related : SelectRelatedValues,
     prefetch_related : PrefetchRelatedValues]

\* children_config of a compound exporter: the main child and the attached
ChildrenConfigs ==
    {c \in SeqsUpTo(ChildExporters, MaxChildren) : Len(c) >= 1}

attached_children(children) == Tail(children)

RECURSIVE SortedPaths(_)
\* the paths of a set, in the order of their strings
SortedPaths(S) ==
    IF S = {} THEN <<>>
    ELSE LET p == CHOOSE q \in S : \A r \in S : PathRank(q) <= PathRank(r)
         IN  <<p>> \o SortedPaths(S \ {p})

\* combine_lists(*lists): sorted, then each entry once.  Iterating a list
\* that is None raises TypeError.
combine_lists(lists) ==
    IF \E i \in 1..Len(lists) : lists[i].none
    THEN [raised |-> "TypeError", val |-> <<>>]
    ELSE [raised |-> "none",
          val |-> SortedPaths(UNION {Range(lists[i].rels) : i \in 1..Len(lists)})]

\* getattr(child, which_rel)
getattr(child, which_rel) ==
    IF which_rel = "select_related" THEN child.select_related
    ELSE child.prefetch_related

\* combine_rels_from_children(which_rel, which_children): an empty
\* which_children is falsy, so all the children are taken.  The prefix
\* comprehension over None raises TypeError, as combine_lists would.
combine_rels_from_children(children, which_rel, which_children) ==
    LET chosen == IF which_children = <<>> THEN children ELSE which_children
        rel_lists ==
            [i \in 1..Len(chosen) |->
                LET base_list == getattr(chosen[i], which_rel)
                IN  IF base_list.none THEN NoRels
                    ELSE RelList([k \in 1..Len(base_list.rels) |->
                             Path(chosen[i].rel_prefix, base_list.rels[k])])]
    IN  combine_lists(rel_lists)

\* the except AttributeError branch of prefetch_related
ComputePrefetchRelated(children) ==
    LET att_sr == combine_rels_from_children(children, "select_related",
                                             attached_children(children))
        all_pr == combine_rels_from_children(children, "prefetch_related", <<>>)
    IN  IF att_sr.raised # "none" THEN att_sr
        ELSE IF all_pr.raised # "none" THEN all_pr
        ELSE combine_lists(<<RelList(all_pr.val), RelList(att_sr.val)>>)

NoCache == [set |-> FALSE, val |-> <<>>]
NoAccess == [raised |-> "none", val |-> <<>>]

IdleRels ==
    /\ rel_children = <<>>
    /\ rel_pc = "idle"
    /\ rel_cache = NoCache
    /\ rel_ret = NoAccess
    /\ rel_accesses = 0
    /\ rel_computed = 0

InitRels ==
    /\ rel_children \in ChildrenConfigs
    /\ rel_pc = "job"
    /\ rel_cache = NoCache
    /\ rel_ret = NoAccess
    /\ rel_accesses = 0
    /\ rel_computed = 0

\* a read of self.prefetch_related while self._prefetch_related is not set
FirstAccess ==
    /\ rel_pc = "job"
    /\ ~rel_cache.set
    /\ rel_accesses < MaxAccesses
    /\ LET r == ComputePrefetchRelated(rel_children)
       IN  /\ rel_ret' = r
           /\ rel_cache' = IF r.raised = "none"
                           THEN [set |-> TRUE, val |-> r.val]
                           ELSE rel_cache
    /\ rel_accesses' = rel_accesses + 1
    /\ rel_computed' = rel_computed + 1
    /\ UNCHANGED <<rel_children, rel_pc>>
    /\ UNCHANGED <<expVars, jobVars, cvVars, cmpVars, exVars, fsVars, srtVars, bibVars, cnvVars, shVars>>

\* a read of self.prefetch_related once self._prefetch_related is set
LaterAccess ==
    /\ rel_pc = "job"
    /\ rel_cache.set
    /\ rel_accesses < MaxAccesses
    /\ rel_ret' = [raised |-> "none", val |-> rel_cache.val]
    /\ rel_accesses' = rel_accesses + 1
    /\ UNCHANGED <<rel_children, rel_pc, rel_cache, rel_computed>>
    /\ UNCHANGED <<expVars, jobVars, cvVars, cmpVars, exVars, fsVars, srtVars, bibVars, cnvVars, shVars>>

NextRels ==
    \/ FirstAccess
    \/ LaterAccess

(***************************************************************************)
(* Specifications                                                          *)
(***************************************************************************)
\* one batch through export_records or delete_records
InitExportOnly == InitExport /\ IdleJob /\ IdleCompile /\ IdleCompound /\ IdleExporter /\ IdleFieldset /\ IdleSort /\ IdleBib /\ IdleConvert /\ IdleShared /\ IdleRels

SpecExport == InitExportOnly /\ [][NextExport]_vars

\* one job, from its chunks to final_callback
InitJobOnly == InitJob /\ IdleExport /\ IdleCompile /\ IdleCompound /\ IdleExporter /\ IdleFieldset /\ IdleSort /\ IdleBib /\ IdleConvert /\ IdleShared /\ IdleRels

SpecJob == InitJobOnly /\ [][NextJob]_vars

\* every worker that holds a chunk finishes it, and the join fires
SpecJobFair == SpecJob /\ WF_vars(NextJob)

\* the results of three chunks, compiled
InitCompileOnly == InitCompile /\ IdleExport /\ IdleJob /\ IdleCompound /\ IdleExporter /\ IdleFieldset /\ IdleSort /\ IdleBib /\ IdleConvert /\ IdleShared /\ IdleRels

SpecCompile == InitCompileOnly /\ [][NextCompile]_vars

\* one call on a compound exporter
InitCompoundOnly == InitCompound /\ IdleExport /\ IdleJob /\ IdleCompile /\ IdleExporter /\ IdleFieldset /\ IdleSort /\ IdleBib /\ IdleConvert /\ IdleShared /\ IdleRels

SpecCompound == InitCompoundOnly /\ [][NextCompound]_vars

\* the construction of an exporter and its query for records
InitSetupOnly == InitSetup /\ IdleExport /\ IdleJob /\ IdleCompile /\ IdleCompound /\ IdleFieldset /\ IdleSort /\ IdleBib /\ IdleConvert /\ IdleShared /\ IdleRels

SpecSetup == InitSetupOnly /\ [][NextSetup]_vars

\* log and save_status calls on one exporter
InitStatusOnly == InitStatus /\ IdleExport /\ IdleJob /\ IdleCompile /\ IdleCompound /\ IdleFieldset /\ IdleSort /\ IdleBib /\ IdleConvert /\ IdleShared /\ IdleRels

SpecStatus == InitStatusOnly /\ [][NextStatus]_vars

\* the calls on one Fieldset
InitFieldsetOnly ==
    InitFieldset /\ IdleExport /\ IdleJob /\ IdleCompile /\ IdleCompound /\ IdleExporter /\ IdleSort /\ IdleBib /\ IdleConvert /\ IdleShared /\ IdleRels

SpecFieldset == InitFieldsetOnly /\ [][NextFieldset]_vars

\* two get_sorted calls on one Fieldset
InitSortOnly ==
    InitSort /\ IdleExport /\ IdleJob /\ IdleCompile /\ IdleCompound /\ IdleExporter /\ IdleFieldset /\ IdleBib /\ IdleConvert /\ IdleShared /\ IdleRels

SpecSort == InitSortOnly /\ [][NextSort]_vars

\* one extractor call on one BibRecord
InitBibOnly ==
    InitBib /\ IdleExport /\ IdleJob /\ IdleCompile /\ IdleCompound /\ IdleExporter /\ IdleFieldset /\ IdleSort /\ IdleConvert /\ IdleShared /\ IdleRels

SpecBib == InitBibOnly /\ [][NextBib]_vars

\* one bib through the two converter tables
InitConvertOnly ==
    InitConvert /\ IdleExport /\ IdleJob /\ IdleCompile /\ IdleCompound /\ IdleExporter /\ IdleFieldset /\ IdleSort /\ IdleBib /\ IdleShared /\ IdleRels

SpecConvert == InitConvertOnly /\ [][NextConvert]_vars

\* two exporters made and used in one process
InitSharedOnly ==
    InitShared /\ IdleExport /\ IdleJob /\ IdleCompile /\ IdleCompound /\ IdleExporter /\ IdleFieldset /\ IdleSort /\ IdleBib /\ IdleConvert /\ IdleRels

SpecShared == InitSharedOnly /\ [][NextShared]_vars

\* the prefetch_related of one compound exporter
InitRelsOnly ==
    InitRels /\ IdleExport /\ IdleJob /\ IdleCompile /\ IdleCompound /\ IdleExporter /\ IdleFieldset /\ IdleSort /\ IdleBib /\ IdleConvert /\ IdleShared

SpecRels == InitRelsOnly /\ [][NextRels]_vars

\* every part of the program
Init ==
    \/ InitExportOnly \/ InitJobOnly \/ InitCompileOnly \/ InitCompoundOnly
    \/ InitSetupOnly \/ InitStatusOnly \/ InitFieldsetOnly \/ InitSortOnly \/ InitBibOnly \/ InitConvertOnly \/ InitSharedOnly \/ InitRelsOnly

Next ==
    \/ NextExport \/ NextJob \/ NextCompile \/ NextCompound
    \/ NextSetup \/ NextStatus \/ NextFieldset \/ NextSort \/ NextBib \/ NextConvert \/ NextShared \/ NextRels

Spec == Init /\ [][Next]_vars

(***************************************************************************)
(* Claims about one batch                                                  *)
(***************************************************************************)
AddedDocs == exp_sink[1].docs

\* C1: in BaseNonSolrmarcBibsToSolr.export_records, for every record of the
\* batch whose stage-1 or stage-2 conversion raises, the exception is caught
\* (the method returns), an Error is logged that carries the record's id and
\* no solr record of that record is in the list passed to add; every other
\* record's solr record is in that list, and add is called (once,
\* commit=False).
C1_FailedRecordSkippedBatchGoesOn ==
    (exp_pc = "export_records") =>
        /\ exp_ret = "returned"
        /\ Len(exp_sink) = 1
        /\ exp_sink[1].op = "add"
        /\ \A i \in 1..Len(exp_records) :
             LET rec == exp_records[i]
             IN  IF rec.s1 \/ rec.s2
                 THEN /\ \E k \in 1..Len(exp_log) :
                            exp_log[k].type = "Error" /\ exp_log[k].id = rec.id
                      /\ \A d \in 1..Len(AddedDocs) : AddedDocs[d].id # rec.id
                 ELSE \E d \in 1..Len(AddedDocs) : AddedDocs[d].id = rec.id

\* a batch where a stage-1 failure, a stage-2 failure and a good record
\* meet, exported
C1_Witness ==
    /\ exp_pc = "export_records"
    /\ \E i \in 1..Len(exp_records) : exp_records[i].s1
    /\ \E i \in 1..Len(exp_records) : ~exp_records[i].s1 /\ exp_records[i].s2
    /\ \E i \in 1..Len(exp_records) : ~exp_records[i].s1 /\ ~exp_records[i].s2
    /\ Len(AddedDocs) > 0

\* C6: in delete_records of BaseNonSolrmarcBibsToSolr and of
\* BaseSolrMarcBibsToSolr, when the sink's delete raises for a record, the
\* error is logged with that record's id, delete_records does not raise and
\* the delete is still attempted for every later record of the batch.
C6_DeleteFailureStaysLocal ==
    (exp_pc = "delete_records") =>
        /\ exp_ret = "returned"
        /\ Len(exp_sink) = Len(exp_records)
        /\ \A i \in 1..Len(exp_sink) :
             /\ exp_sink[i].op = "delete"
             /\ exp_sink[i].docs[1].id = exp_records[i].id
             /\ exp_sink[i].raised =>
                  \E k \in 1..Len(exp_log) :
                      exp_log[k].type = "Error" /\ exp_log[k].id = exp_records[i].id

(***************************************************************************)
(* Claims about one job                                                    *)
(***************************************************************************)
\* C2: final_callback runs exactly once per job, and only after every record
\* chunk and every deletion chunk of the job has finished its
\* export_records / delete_records call (by returning or by raising); it
\* never runs while a chunk is still waiting or in progress.
C2_FinalCallbackOnceAfterEveryChunk ==
    /\ [](job_final <= 1)
    /\ [][job_final' # job_final =>
            \A c \in 1..Len(job_chunks) :
                job_chunks[c].st \in {"done", "raised"} /\ job_chunks[c].calls = <<>>]_vars
    /\ [](job_final = 1 =>
            \A c \in 1..Len(job_chunks) : job_chunks[c].st \in {"done", "raised"})
    /\ <>(job_final = 1)

\* a job of a record chunk and a deletion chunk after its final_callback:
\* the record chunk made its sink call between two calls of the deletion
\* chunk, whose delete_records call then raised
C2_Witness ==
    /\ job_final = 1
    /\ \E c \in 1..Len(job_chunks) :
          job_chunks[c].kind = "rec" /\ job_chunks[c].st = "done"
    /\ \E c \in 1..Len(job_chunks) :
          job_chunks[c].kind = "del" /\ job_chunks[c].st = "raised"
    /\ \E i \in 1..Len(job_trace) : \E j \in 1..Len(job_trace) : \E k \in 1..Len(job_trace) :
          /\ i < j /\ j < k
          /\ job_trace[i].by = "delete_records"
          /\ job_trace[j].by = "export_records"
          /\ job_trace[k].by = "delete_records"

\* the calls on the index client: add, delete, update, reindex, commit
ClientOps == {"add", "delete", "update", "reindex", "commit"}

\* C3: no call on the index client made from export_records or
\* delete_records commits (add, delete, update and reindex all pass
\* commit=False); the client's commit is only called from final_callback, so
\* no such commit comes before an export or delete call of the job.  The
\* SolrMarc process that BaseSolrMarcBibsToSolr.export_records runs is not a
\* call on the client.
C3_CommitOnlyInFinalCallback ==
    /\ \A i \in 1..Len(job_trace) :
          job_trace[i].by \in {"export_records", "delete_records"} =>
              /\ job_trace[i].op \in {"add", "delete", "update", "reindex", "solrmarc"}
              /\ job_trace[i].op \in ClientOps => job_trace[i].commit = FALSE
    /\ \A i \in 1..Len(job_trace) :
          (job_trace[i].op \in ClientOps /\ job_trace[i].commit) =>
              job_trace[i].by = "final_callback" /\ job_trace[i].op = "commit"
    /\ \A i \in 1..Len(job_trace) : \A j \in 1..Len(job_trace) :
          (i < j /\ job_trace[i].op = "commit") => job_trace[j].by = "final_callback"

\* a finished job whose chunks updated and deleted in turns before the commit
C3_Witness ==
    /\ job_final = 1
    /\ \E i \in 1..Len(job_trace) : \E j \in 1..Len(job_trace) : \E k \in 1..Len(job_trace) :
          /\ i < j /\ j < k
          /\ job_trace[i].by = "export_records" /\ job_trace[i].op \in {"add", "update"}
          /\ job_trace[j].by = "delete_records" /\ job_trace[j].op = "delete"
          /\ job_trace[k].by = "export_records" /\ job_trace[k].op \in {"add", "update"}
          /\ job_trace[i].chunk = job_trace[k].chunk
    /\ job_trace[Len(job_trace)].op = "commit"

(***************************************************************************)
(* Claims about compile_vals                                               *)
(***************************************************************************)
\* the list under "l" of a result, and the list under "m" then "n"
ListAtL(r) ==
    IF r.kind = "dict" /\ "l" \in DOMAIN r.entries THEN r.entries["l"].items ELSE <<>>

ListAtMN(r) ==
    IF r.kind = "dict" /\ "m" \in DOMAIN r.entries
       /\ "n" \in DOMAIN r.entries["m"].entries
    THEN r.entries["m"].entries["n"].items ELSE <<>>

\* C4: compile_vals is associative over chunk results: compile_vals([A, B, C])
\* equals compile_vals([compile_vals([A, B]), C]); nested mappings are merged
\* recursively and list-valued fields are concatenated in the order of the
\* results.
C4_CompileValsAssociative ==
    (cv_pc = "in_steps") =>
        /\ cv_one = cv_two
        /\ ListAtL(cv_one) =
             ListAtL(cv_results[1]) \o ListAtL(cv_results[2]) \o ListAtL(cv_results[3])
        /\ ListAtMN(cv_one) =
             ListAtMN(cv_results[1]) \o ListAtMN(cv_results[2]) \o ListAtMN(cv_results[3])

\* three results that each add to the list "l" and to the nested list
C4_Witness ==
    /\ cv_pc = "in_steps"
    /\ \A i \in 1..3 : ListAtL(cv_results[i]) # <<>> /\ ListAtMN(cv_results[i]) # <<>>
    /\ Len(ListAtL(cv_two)) >= 3
    /\ Len(ListAtMN(cv_two)) >= 3

\* how many times x occurs in the list s
Count(s, x) == Cardinality({i \in 1..Len(s) : s[i] = x})

RECURSIVE Equivalent(_, _)
\* the same keys and nested mappings, lists equal up to the order of their
\* elements
Equivalent(a, b) ==
    /\ a.kind = b.kind
    /\ a.kind = "list" =>
          /\ Len(a.items) = Len(b.items)
          /\ \A x \in Range(a.items) : Count(a.items, x) = Count(b.items, x)
    /\ a.kind = "dict" =>
          /\ DOMAIN a.entries = DOMAIN b.entries
          /\ \A k \in DOMAIN a.entries : Equivalent(a.entries[k], b.entries[k])

\* C5: compile_vals, and the compound compile_vals, of any reordering of a
\* list of chunk results give an equivalent aggregate: the same keys and
\* nested mappings, list-valued fields equal up to the order of their
\* elements.
C5_CompileValsAnyOrder ==
    (cv_pc = "reordered") => Equivalent(cv_one, cv_two)

\* a compound job whose chunks, finishing in another order, give lists in
\* another order
C5_Witness ==
    /\ cv_pc = "reordered"
    /\ cv_kind = "compound"
    /\ cv_one # cv_two
    /\ \A i \in 1..3 : cv_results[i].kind = "dict"

\* the entries of one child in the results that are not None, in result order
EntriesOf(name, results) ==
    LET given == SelectSeq(results, LAMBDA r : r.kind # "none")
    IN  [i \in 1..Len(given) |-> given[i].entries[name]]

\* C11: the compound compile_vals returns, under every child's name, that
\* child's own compile_vals of the child's entries of the results that are
\* not None, in result order; two lists of results with the same entries for
\* a child give the same value under that child's name, whatever the entries
\* of the other children are.
C11_CompoundCompilePerChild ==
    (cv_pc = "other") =>
        /\ cv_one.kind = "dict"
        /\ DOMAIN cv_one.entries = ChildNames
        /\ \A name \in ChildNames :
              cv_one.entries[name] = compile_vals(EntriesOf(name, cv_results))
        /\ (EntriesOf(cv_child, cv_results) = EntriesOf(cv_child, cv_other))
              => cv_one.entries[cv_child] = cv_two.entries[cv_child]

\* two lists with the same entries for bibs and other entries for items: the
\* compiled values differ under items, and bibs has a merged list
C11_Witness ==
    /\ cv_pc = "other"
    /\ cv_child = "bibs"
    /\ EntriesOf("bibs", cv_results) = EntriesOf("bibs", cv_other)
    /\ EntriesOf("items", cv_results) # EntriesOf("items", cv_other)
    /\ cv_one.entries["items"] # cv_two.entries["items"]
    /\ cv_one.entries["bibs"].kind = "dict"
    /\ Len(cv_one.entries["bibs"].entries["l"].items) >= 2

(***************************************************************************)
(* Claims about the compound exporter                                      *)
(***************************************************************************)
\* the children that were called in the last compound call
Called == {cmp_calls[i].child : i \in 1..Len(cmp_calls)}

\* C7: in a compound exporter, when one child's export_records,
\* delete_records or final_callback raises, the same operation is still
\* attempted on every other child.
C7_ChildFailureStaysLocal ==
    (cmp_pc \in {"export_records", "delete_records", "final_callback"}
     /\ cmp_ret.outcome = "raised")
        => \A name \in ChildNames :
              \E i \in 1..Len(cmp_calls) :
                  cmp_calls[i].child = name /\ cmp_calls[i].op = cmp_pc

\* the records child `name` derives from the parent batch
DerivedBy(name) ==
    UNION {Range(derive_records(name, cmp_batch[i], cmp_att)) : i \in 1..Len(cmp_batch)}

\* C8: compound export_records computes the per-child record sets once per
\* call, calls each child's export_records exactly once with that child's
\* own set, and returns a mapping whose keys are exactly the child names and
\* whose value under each name is that child's returned result.
C8_ExportFansOut ==
    (cmp_pc = "export_records" /\ cmp_ret.outcome = "returned") =>
        /\ cmp_gen = 1
        /\ Len(cmp_calls) = Len(ChildrenConfig)
        /\ \A i \in 1..Len(cmp_calls) :
              /\ cmp_calls[i].child = ChildrenConfig[i]
              /\ cmp_calls[i].op = "export_records"
              /\ cmp_calls[i].recs = cmp_rsets[ChildrenConfig[i]]
              /\ Range(cmp_calls[i].recs) = DerivedBy(ChildrenConfig[i])
        /\ DOMAIN cmp_ret.vals = ChildNames
        /\ \A name \in ChildNames :
              cmp_ret.vals[name] = ChildResult(name, "export_records", cmp_rsets[name])

\* an export where the two children are handed different record sets
C8_Witness ==
    /\ cmp_pc = "export_records"
    /\ cmp_ret.outcome = "returned"
    /\ Len(cmp_batch) >= 2
    /\ DerivedBy("bibs") # DerivedBy("items")
    /\ DerivedBy("items") # {}

\* C9: compound delete_records fans out like export_records: it invokes
\* every child's delete_records on that child's derived record set and
\* returns each child's result under the child's name.
C9_DeleteFansOut ==
    (cmp_pc = "delete_records" /\ cmp_ret.outcome = "returned") =>
        /\ \A name \in ChildNames :
              \E i \in 1..Len(cmp_calls) :
                  /\ cmp_calls[i].child = name
                  /\ cmp_calls[i].op = "delete_records"
                  /\ Range(cmp_calls[i].recs) = DerivedBy(name)
        /\ \A name \in ChildNames :
              /\ cmp_ret.vals[name].by = name
              /\ cmp_ret.vals[name].op = "delete_records"

\* C9 as amended: compound delete_records invokes only the main (first)
\* child's delete_records, once, on the parent deletion batch as given (no
\* derive_records, no generate_record_sets), and returns a mapping with every
\* child name: the main child's result under its name, None under the others.
C9_DeleteMainChildOnly ==
    (cmp_pc = "delete_records") =>
        /\ cmp_gen = 0
        /\ Len(cmp_calls) = 1
        /\ cmp_calls[1].child = MainChild
        /\ cmp_calls[1].op = "delete_records"
        /\ cmp_calls[1].recs = cmp_batch
        /\ cmp_ret.outcome = "returned" =>
              /\ DOMAIN cmp_ret.vals = ChildNames
              /\ \A name \in ChildNames :
                    cmp_ret.vals[name] =
                        IF name = MainChild
                        THEN ChildResult(name, "delete_records", cmp_batch)
                        ELSE NoResult

\* a deletion batch whose records have attached records, deleted
C9_Witness ==
    /\ cmp_pc = "delete_records"
    /\ cmp_ret.outcome = "returned"
    /\ Len(cmp_batch) >= 2
    /\ DerivedBy("items") # {}

\* C10: generate_record_sets(parent_batch) returns, for every child, a list
\* without duplicates whose elements are the union of that child's
\* derive_records over the records of the batch; a record derived for two
\* children is in both children's lists.
C10_RecordSetsDeduplicatedPerChild ==
    (cmp_pc = "export_records") =>
        /\ DOMAIN cmp_rsets = ChildNames
        /\ \A name \in ChildNames :
              /\ \A i \in 1..Len(cmp_rsets[name]) : \A j \in 1..Len(cmp_rsets[name]) :
                    cmp_rsets[name][i] = cmp_rsets[name][j] => i = j
              /\ Range(cmp_rsets[name]) = DerivedBy(name)
        /\ \A x \in Parents :
              (\A name \in ChildNames : x \in DerivedBy(name))
                  => \A name \in ChildNames : x \in Range(cmp_rsets[name])

\* a batch where two parents share an attached record, which is also a
\* record of the main child
C10_Witness ==
    /\ cmp_pc = "export_records"
    /\ Len(cmp_batch) >= 2
    /\ \E i \in 1..Len(cmp_batch) : \E j \in 1..Len(cmp_batch) :
          /\ i # j
          /\ Range(cmp_att[cmp_batch[i]]) \cap Range(cmp_att[cmp_batch[j]]) # {}
    /\ DerivedBy("bibs") \cap DerivedBy("items") # {}
    /\ Len(cmp_rsets["items"]) >= 2

\* C12: the compound final_callback, when no child raises, calls every
\* child's final_callback exactly once, in the order of the children's
\* configuration, with that child's own entry vals[child name] and the job
\* status; no child is handed another child's vals.
C12_FinalCallbackFansOut ==
    (cmp_pc = "final_callback" /\ cmp_ret.outcome = "returned") =>
        /\ Len(cmp_calls) = Len(ChildrenConfig)
        /\ \A i \in 1..Len(cmp_calls) :
              /\ cmp_calls[i].child = ChildrenConfig[i]
              /\ cmp_calls[i].op = "final_callback"
              /\ cmp_calls[i].vals = FinalVals[ChildrenConfig[i]]
              /\ cmp_calls[i].status = cmp_status
              /\ \A other \in ChildNames \ {ChildrenConfig[i]} :
                    cmp_calls[i].vals # FinalVals[other]

\* a final_callback of a job that ended with errors, gone through both
\* children
C12_Witness ==
    /\ cmp_pc = "final_callback"
    /\ cmp_ret.outcome = "returned"
    /\ cmp_status = "done_with_errors"
    /\ Len(cmp_calls) = 2
    /\ cmp_calls[2].child = "items"

(***************************************************************************)
(* Claims about the construction of an exporter, its query, log and        *)
(* save_status                                                             *)
(***************************************************************************)
\* the earlier instances of the job's export type that ended with success or
\* done_with_errors
EarlierRuns ==
    {i \in ex_store : i.type = ex_type /\ i.status \in {"success", "done_with_errors"}}

\* C13: constructing an Exporter with export_filter 'last_export' raises
\* ExportError when no earlier instance of the same export type has status
\* success or done_with_errors, and nothing of the job runs afterwards; when
\* there is one, options['latest_time'] is the timestamp of the most recent
\* one.
C13_LastExportNeedsEarlierRun ==
    /\ []((ex_pc \notin {"idle", "new"} /\ ex_filter = "last_export") =>
            IF EarlierRuns = {}
            THEN /\ ex_pc = "raised"
                 /\ ex_error = "ExportError"
                 /\ ex_got = NoQuery
                 /\ ex_ncalls = 0
            ELSE /\ ex_pc # "raised"
                 /\ \E i \in EarlierRuns : i.timestamp = ex_latest
                 /\ \A i \in EarlierRuns : i.timestamp <= ex_latest)
    /\ [][ex_pc = "raised" => UNCHANGED exVars]_vars

\* the latest instance of the type failed, an older one succeeded: the
\* exporter is constructed with the older one's timestamp
C13_Witness ==
    /\ ex_pc = "constructed"
    /\ ex_filter = "last_export"
    /\ \E i \in ex_store : i.type = ex_type /\ i.status = "error" /\ i.timestamp > ex_latest
    /\ \E i \in ex_store : i.type # ex_type \/ i.status = "success"
    /\ ex_latest >= 1

\* C14: _base_get_records with a filter that matches no record returns the
\* empty record set when fail_on_zero is false and raises ExportError when
\* fail_on_zero is true; a failure while the query is built is reported as
\* ExportError too.
C14_ZeroRecordsAndQueryFailures ==
    (ex_pc \in {"got_records", "failed"}) =>
        /\ ex_got.fails => (ex_pc = "failed" /\ ex_error = "ExportError")
        /\ (~ex_got.fails /\ ex_got.matches = 0 /\ ~ex_got.fail_on_zero)
              => (ex_pc = "got_records" /\ ex_got.records = 0)
        /\ (~ex_got.fails /\ ex_got.matches = 0 /\ ex_got.fail_on_zero)
              => (ex_pc = "failed" /\ ex_error = "ExportError")

\* C15: save_status never rejects a status: a status defined in the Status
\* table is persisted as it is and nothing is logged; a status that is not
\* defined is persisted as 'unknown' and one warning is logged.
C15_SaveStatusCoercesToUnknown ==
    [][(ex_last' = "save_status" /\ ex_ncalls' = ex_ncalls + 1) =>
          IF ex_status' \in DefinedStatuses
          THEN /\ ex_row'.status = ex_status'
               /\ ex_log' = ex_log
          ELSE /\ ex_row'.status = "unknown"
               /\ ex_log' = Append(ex_log, "Warning")]_vars

\* a status that is not defined was saved as 'unknown', with its warning,
\* after a defined one had been saved
C15_Witness ==
    /\ ex_last = "save_status"
    /\ ex_ncalls >= 2
    /\ ex_status \notin DefinedStatuses
    /\ ex_row.status = "unknown"
    /\ ex_log = <<"Warning">>

\* C16: after any sequence of log and save_status calls on one exporter the
\* warnings counter of the job's row has grown by the number of 'Warning'
\* log calls and the errors counter by the number of 'Error' log calls;
\* 'Info' log calls and status saves change neither counter.
C16_CountersMatchLogCalls ==
    (ex_pc = "constructed") =>
        /\ ex_row.warnings = NewRow.warnings + Count(ex_log, "Warning")
        /\ ex_row.errors = NewRow.errors + Count(ex_log, "Error")

(***************************************************************************)
(* Claims about Field and Fieldset                                         *)
(***************************************************************************)
\* the Fields of the Fieldset the call was made on, before the call
OldFields == fs_old.sets[fs_call.on]

\* everything that was on the heap before the call is as it was
OldObjectsUnchanged ==
    /\ SubSeq(fs_heap.subs, 1, Len(fs_old.subs)) = fs_old.subs
    /\ SubSeq(fs_heap.fields, 1, Len(fs_old.fields)) = fs_old.fields
    /\ SubSeq(fs_heap.sets, 1, Len(fs_old.sets)) = fs_old.sets

\* C17: fields_where(p) and fields_where_not(p) partition the Fieldset:
\* every Field of the original is in exactly one of the two results, and
\* each result has its Fields in the order of the original.
C17_FieldsWherePartition ==
    (fs_pc = "fields_where") =>
        LET w == fs_heap.sets[fs_ret.a]
            n == fs_heap.sets[fs_ret.b]
        IN  /\ Len(w) + Len(n) = Len(OldFields)
            /\ \A f \in Range(OldFields) : (f \in Range(w)) # (f \in Range(n))
            /\ Range(w) \cup Range(n) = Range(OldFields)
            /\ w = SelectSeq(OldFields, LAMBDA f : f \in Range(w))
            /\ n = SelectSeq(OldFields, LAMBDA f : f \in Range(n))
            /\ \A f \in Range(w) : Test(fs_old, fs_call.test, fs_old.fields[f])
            /\ \A f \in Range(n) : ~Test(fs_old, fs_call.test, fs_old.fields[f])

\* two Fields, one in each result
C17_Witness ==
    /\ fs_pc = "fields_where"
    /\ Len(OldFields) >= 2
    /\ fs_heap.sets[fs_ret.a] # <<>>
    /\ fs_heap.sets[fs_ret.b] # <<>>
    /\ fs_call.test.fn = "field_has_any_subfields_where"

\* how many times a subfield dict occurs in the Fields of a list
Occurrences(h, fields, sub) ==
    Cardinality({<<i, j>> \in (1..Len(fields)) \X (1..MaxSubs + 1) :
                    /\ j <= Len(h.fields[fields[i]].subfields)
                    /\ h.fields[fields[i]].subfields[j] = sub})

RECURSIVE ReplaceTimes(_, _, _)
\* replace applied n times
ReplaceTimes(replace, data, n) ==
    IF n = 0 THEN data ELSE ReplaceTimes(replace, Replace(replace, data), n - 1)

\* the Fields the filter and replace were called on: one Field, or the
\* Fields of a Fieldset
Filtered ==
    IF fs_pc = "filter_replace_field" THEN <<fs_call.on>> ELSE fs_old.sets[fs_call.on]

\* the subfield dicts of the Fields the call was made on
SubsOf(fields) ==
    UNION {Range(fs_old.fields[fields[i]].subfields) : i \in 1..Len(fields)}

\* tags, order and number of the subfields, and the Fields and Fieldsets,
\* are as before the call
StructureUnchanged ==
    /\ SubSeq(fs_heap.fields, 1, Len(fs_old.fields)) = fs_old.fields
    /\ SubSeq(fs_heap.sets, 1, Len(fs_old.sets)) = fs_old.sets
    /\ Len(fs_heap.subs) = Len(fs_old.subs)
    /\ \A a \in 1..Len(fs_old.subs) : fs_heap.subs[a].tag = fs_old.subs[a].tag

\* C18: after subfields_where(tag_equals, X).replace_subfield_data(f) on a
\* Field or Fieldset, in the original every subfield with tag X has data
\* f(old data) and every other subfield keeps its data; tags, order and
\* number of the subfields of the original are unchanged.
C18_FilterThenReplaceOnce ==
    (fs_pc \in {"filter_replace_field", "filter_replace_fieldset"}) =>
        /\ StructureUnchanged
        /\ \A a \in SubsOf(Filtered) :
              fs_heap.subs[a].data =
                 IF fs_old.subs[a].tag = fs_call.test.tag
                 THEN Replace(fs_call.replace, fs_old.subs[a].data)
                 ELSE fs_old.subs[a].data

\* C18 as the code has it: every subfield with tag X has f applied to its
\* data once for each time the subfield dict occurs in the Field or
\* Fieldset, which is once when no Field occurs in the Fieldset twice; every
\* other subfield keeps its data; tags, order and number of the subfields
\* are unchanged.
C18_FilterThenReplacePerOccurrence ==
    (fs_pc \in {"filter_replace_field", "filter_replace_fieldset"}) =>
        /\ StructureUnchanged
        /\ \A a \in 1..Len(fs_old.subs) :
              fs_heap.subs[a].data =
                 IF a \in SubsOf(Filtered) /\ fs_old.subs[a].tag = fs_call.test.tag
                 THEN ReplaceTimes(fs_call.replace, fs_old.subs[a].data,
                                   Occurrences(fs_old, Filtered, a))
                 ELSE fs_old.subs[a].data

\* a Fieldset as the factory made it, with a Field that has a subfield of
\* tag X, now changed, and a subfield of another tag, as it was
C18_Witness ==
    /\ fs_pc = "filter_replace_fieldset"
    /\ fs_call.on = 1
    /\ fs_call.replace = "mark"
    /\ \E i \in 1..Len(Filtered) :
       \E a, b \in Range(fs_old.fields[Filtered[i]].subfields) :
          /\ fs_old.subs[a].tag = fs_call.test.tag
          /\ fs_old.subs[b].tag # fs_call.test.tag
          /\ fs_heap.subs[a].data.marks = 1
          /\ fs_heap.subs[b].data = fs_old.subs[b].data

\* C19: Fieldset.subfields_where and subfields_where_not never drop a
\* Field: the output has as many Fields as the input, in the same order;
\* each is a new Field object whose subfields are the matching (the
\* non-matching) subfield dicts of the input Field in their order, none at
\* all if there is none; the input Fields keep their subfield lists.
C19_SubfieldsWhereKeepsFields ==
    (fs_pc \in {"subfields_where", "subfields_where_not"}) =>
        LET out == fs_heap.sets[fs_ret.a]
            keep(sf) == Test(fs_old, fs_call.test, fs_old.subs[sf])
                            = (fs_pc = "subfields_where")
        IN  /\ OldObjectsUnchanged
            /\ fs_ret.a > Len(fs_old.sets)
            /\ Len(out) = Len(OldFields)
            /\ \A i \in 1..Len(out) :
                  /\ out[i] > Len(fs_old.fields)
                  /\ \A j \in 1..Len(out) : (out[i] = out[j]) => (i = j)
                  /\ fs_heap.fields[out[i]].tag = fs_old.fields[OldFields[i]].tag
                  /\ fs_heap.fields[out[i]].subfields =
                        SelectSeq(fs_old.fields[OldFields[i]].subfields, keep)

\* two Fields, one left without a subfield, one with two of its subfields
C19_Witness ==
    /\ fs_pc = "subfields_where"
    /\ Len(OldFields) >= 2
    /\ \E i, j \in 1..Len(OldFields) :
          /\ fs_old.fields[OldFields[i]].subfields # <<>>
          /\ fs_heap.fields[fs_heap.sets[fs_ret.a][i]].subfields = <<>>
          /\ Len(fs_heap.fields[fs_heap.sets[fs_ret.a][j]].subfields) >= 1
          /\ Len(fs_heap.fields[fs_heap.sets[fs_ret.a][j]].subfields)
                < Len(fs_old.fields[OldFields[j]].subfields)

\* the Fields replace_subfield_data was called on
Replaced ==
    IF fs_pc = "replace_field" THEN <<fs_call.on>> ELSE fs_old.sets[fs_call.on]

\* the data of every subfield of the Fields was replaced in place, once for
\* each time the subfield occurs in them; nothing else changed
ReplacedInPlace ==
    /\ StructureUnchanged
    /\ \A a \in 1..Len(fs_old.subs) :
          fs_heap.subs[a].data =
             ReplaceTimes(fs_call.replace, fs_old.subs[a].data,
                          Occurrences(fs_old, Replaced, a))

\* C20: replace_subfield_data returns the object it was called on:
\* Field.replace_subfield_data the same Field and
\* Fieldset.replace_subfield_data the same Fieldset, not a new one, after
\* replacing every subfield's data in place.
C20_ReplaceReturnsSelf ==
    (fs_pc \in {"replace_field", "replace_fieldset"}) =>
        /\ fs_ret.a = fs_call.on
        /\ ReplacedInPlace

\* C20 as the code has it: Field.replace_subfield_data returns the Field it
\* was called on; Fieldset.replace_subfield_data returns a new Fieldset that
\* holds the same Field objects in the same order; both replace the data of
\* every subfield in place.
C20_ReplaceReturnsSelfOrNewFieldset ==
    /\ (fs_pc = "replace_field") =>
          /\ fs_ret.a = fs_call.on
          /\ ReplacedInPlace
    /\ (fs_pc = "replace_fieldset") =>
          /\ fs_ret.a > Len(fs_old.sets)
          /\ fs_ret.a # fs_call.on
          /\ fs_heap.sets[fs_ret.a] = fs_old.sets[fs_call.on]
          /\ ReplacedInPlace

\* a Fieldset of two Fields with subfields, replaced
C20_Witness ==
    /\ fs_pc = "replace_fieldset"
    /\ Len(fs_heap.sets[fs_ret.a]) >= 2
    /\ Len(fs_old.subs) >= 2
    /\ \A a \in 1..Len(fs_old.subs) : fs_heap.subs[a].data # fs_old.subs[a].data

(***************************************************************************)
(* Claims about the two conversion stages of one batch                     *)
(***************************************************************************)
ErrorsFor(id) ==
    {k \in 1..Len(exp_log) : exp_log[k].type = "Error" /\ exp_log[k].id = id}

\* the records of the batch whose two conversion stages both succeed
BothStagesOk == SelectSeq(exp_records, LAMBDA rec : ~rec.s1 /\ ~rec.s2)

\* C26: in BaseNonSolrmarcBibsToSolr.export_records, a record whose stage-1
\* conversion raises is skipped entirely: exactly one conversion error is
\* logged for it (the stage-1 one) and stage 2 is not run on its behalf, so
\* the list handed to add has one entry per record that passed both stages.
C26_Stage1FailureSkipsRecord ==
    (exp_pc = "export_records") =>
        /\ \A i \in 1..Len(exp_records) :
             exp_records[i].s1 =>
                /\ Cardinality(ErrorsFor(exp_records[i].id)) = 1
                /\ \A k \in ErrorsFor(exp_records[i].id) :
                       exp_log[k].msg = "Bib conversion error"
        /\ Len(AddedDocs) = Len(BothStagesOk)

\* C28: after BaseNonSolrmarcBibsToSolr.export_records, the list handed to
\* add holds exactly one sink record for each record of the batch whose two
\* stages both succeeded, in batch order, and nothing else: none twice, none
\* built from an earlier record's intermediate record.
C28_AddedDocsAreTheConvertedRecords ==
    (exp_pc = "export_records") =>
        /\ Len(exp_sink) = 1
        /\ AddedDocs = [k \in 1..Len(BothStagesOk) |-> [id |-> BothStagesOk[k].id]]

(***************************************************************************)
(* Claims about Fieldset.get_sorted                                        *)
(***************************************************************************)
\* the returned list holds the same Field objects as the original, each once
IsPermutation(a, b) ==
    /\ Len(a) = Len(b)
    /\ \A x \in Range(a) \cup Range(b) : Count(a, x) = Count(b, x)

SortedNewAndOriginalKept ==
    /\ IsPermutation(srt_ret[1], srt_old)
    /\ IsPermutation(srt_ret[2], srt_old)
    /\ srt_fs = srt_old

\* C21 as stated: for every list of element names, get_sorted with an extra
\* name that no Field has returns the same order as without it; the result
\* is a new Fieldset, a permutation of the original, which keeps its order.
C21_UnknownElementIgnored ==
    (srt_pc = "get_sorted") =>
        /\ srt_ret[1] = srt_ret[2]
        /\ SortedNewAndOriginalKept

\* C21: for every non-empty list of element names (and for every list when
\* a key function is given), get_sorted with an extra name that no Field has
\* returns the same order as without it; for every list, the result is a
\* new Fieldset that is a permutation of the original, and the original
\* keeps its order.
C21_UnknownElementIgnoredWhenOthersGiven ==
    (srt_pc = "get_sorted") =>
        /\ (srt_call.key # "None" \/ srt_call.elements # <<>>)
              => srt_ret[1] = srt_ret[2]
        /\ SortedNewAndOriginalKept

\* a Fieldset out of order, with two Fields of the same tag, sorted by tag
\* and by the unknown name and tag
C21_Witness ==
    /\ srt_pc = "get_sorted"
    /\ srt_call.key = "None"
    /\ srt_call.elements = <<"tag">>
    /\ srt_ret[1] # srt_old
    /\ srt_ret[1] = srt_ret[2]
    /\ \E i \in 1..Len(srt_old) : \E j \in 1..Len(srt_old) :
           i # j /\ srt_old[i].tag = srt_old[j].tag

(***************************************************************************)
(* Claims about bib extraction                                             *)
(***************************************************************************)
ExtractedFields == Range(bib_ret.fields)

\* C22: bib extraction never raises because of a missing leader: for a bib
\* with no leader row, extract_leader returns a Fieldset of one Field with
\* tag 'LDR', indicators [None, None], no subfields and occurrence 0, and
\* extract does not fail for want of the leader.
C22_MissingLeaderTolerated ==
    /\ (bib_pc = "extract_leader" /\ ~bib_rec.leader) =>
          /\ bib_ret.raised = "none"
          /\ Len(bib_ret.fields) = 1
          /\ bib_ret.fields[1].tag = LDR
          /\ bib_ret.fields[1].indicators = NoIndicators
          /\ bib_ret.fields[1].subfields = <<>>
          /\ bib_ret.fields[1].occurrence = 0
    /\ (bib_pc = "extract" /\ ~bib_rec.leader) =>
          bib_ret.raised # "UnboundLocalError"

\* C23 as stated: every extracted Field with a numeric tag below 10 has
\* indicators (None, None) and no subfields; every Field with a tag of 10 or
\* above, or the tag 'LDR', carries indicators and subfields and no
\* top-level data.
C23_FieldInvariant ==
    \A f \in ExtractedFields :
        /\ (f.tag.kind = "num" /\ f.tag.num < 10) =>
              f.indicators = NoIndicators /\ f.subfields = <<>>
        /\ (f.tag = LDR \/ (f.tag.kind = "num" /\ f.tag.num >= 10)) =>
              /\ {"indicators", "subfields"} \subseteq f.keys
              /\ "data" \notin f.keys

\* C23: every extracted Field has indicators and subfields entries; with
\* the tag 'LDR' or a numeric tag below 10 the indicators are (None, None)
\* and the subfield list is empty; the leader and the control field rows
\* (006-008) carry a top-level data payload; a Field made from a varfield
\* row has no top-level data, and with a tag of 10 or above it carries the
\* row's two indicators.
C23_FieldInvariantLeaderHasData ==
    \A f \in ExtractedFields :
        /\ {"tag", "indicators", "subfields", "occurrence"} \subseteq f.keys
        /\ Len(f.indicators) = 2
        /\ (f.tag = LDR \/ f.tag.num < 10) =>
              f.indicators = NoIndicators /\ f.subfields = <<>>
        /\ (f.tag = LDR \/ f.tag.num \in {6, 7, 8}) <=> "data" \in f.keys
        /\ (f.tag.kind = "num" /\ f.tag.num >= 10) =>
              /\ "data" \notin f.keys
              /\ f.indicators # NoIndicators

\* a bib extracted into a leader, a control field and a varfield that has
\* a subfield
C23_Witness ==
    /\ bib_pc = "extract"
    /\ bib_ret.raised = "none"
    /\ \E f \in ExtractedFields : f.tag = LDR
    /\ \E f \in ExtractedFields : f.tag.kind = "num" /\ f.tag.num \in {6, 7, 8}
    /\ \E f \in ExtractedFields : f.tag.num >= 10 /\ f.subfields # <<>>

\* the positions of the delimiter in a content string
Delimiters(content) == {p \in 1..Len(content) : content[p] = "|"}

\* the first delimiter after position p, or the end of the string
NextDelimiter(content, p) ==
    IF \E q \in Delimiters(content) : q > p
    THEN CHOOSE q \in Delimiters(content) :
            q > p /\ \A r \in Delimiters(content) : r > p => q <= r
    ELSE Len(content) + 1

\* the k-th delimiter
KthDelimiter(content, k) ==
    CHOOSE p \in Delimiters(content) :
        Cardinality({q \in Delimiters(content) : q <= p}) = k

\* C30: for every content string of a varfield with a tag of 10 or above,
\* subfield parsing does not raise and yields, in order, one subfield per
\* delimiter: its tag is the character right after the delimiter, its data
\* the text up to the next delimiter; no delimiter, no subfields.
C30_OneSubfieldPerDelimiter ==
    (bib_pc = "extract_varfields") =>
        /\ bib_ret.raised = "none"
        /\ Len(bib_ret.fields) = Len(bib_rec.varfields)
        /\ \A i \in 1..Len(bib_rec.varfields) :
             LET content == bib_rec.varfields[i].field_content
                 subfields == bib_ret.fields[i].subfields
             IN  bib_rec.varfields[i].marc_tag >= 10 =>
                   /\ Len(subfields) = Cardinality(Delimiters(content))
                   /\ \A k \in 1..Len(subfields) :
                        LET p == KthDelimiter(content, k)
                        IN  /\ p < Len(content)
                            /\ subfields[k].tag = content[p + 1]
                            /\ subfields[k].data =
                                 SubSeq(content, p + 2, NextDelimiter(content, p) - 1)

(***************************************************************************)
(* Claims about the converter tables                                       *)
(***************************************************************************)
\* the output has exactly the table's names, each with its function's value
OutputOf(table, in_data, output) ==
    /\ DOMAIN output = {table[i].fname : i \in 1..Len(table)}
    /\ \A i \in 1..Len(table) :
           output[table[i].fname] = ConvertField(table[i].fn, in_data)

\* an untbib without its 'items': what bib_converter.convert returned
BibFieldsOf(untbib) == [n \in DOMAIN untbib \ {"items"} |-> untbib[n]]

\* C24: RecordConverter.convert(input) returns a record whose keys are
\* exactly the names of the table and whose value under each name is that
\* name's function applied to the input; the output is the same whatever
\* the order in which the entries are declared or applied.  Checked on the
\* three tables of BibsToBlacklightMarc: the bib table and the item table
\* inside SierraBibToUntbib.convert, the solr table in UntbibToSolr.convert.
C24_ConvertAppliesEveryEntry ==
    /\ (cnv_pc \in {"converted", "untbib", "solr"}) =>
          /\ OutputOf(bibfield_map, [bib |-> cnv_in.bib], BibFieldsOf(cnv_untbib[2]))
          /\ Len(cnv_untbib[2].items) = Len(cnv_in.items)
          /\ \A i \in 1..Len(cnv_in.items) :
                OutputOf(itemfield_map, [bib |-> cnv_in.bib, item |-> cnv_in.items[i]],
                         cnv_untbib[2].items[i])
          /\ cnv_untbib[1] = cnv_untbib[2]
    /\ (cnv_pc = "solr") =>
          /\ OutputOf(solrfield_map, cnv_untbib[2], cnv_solr[2])
          /\ cnv_solr[1] = cnv_solr[2]

\* the solr table walked in an order that is not the declared one, on the
\* untbib of a bib with an author, dates and an item with a call number
C24_Witness ==
    /\ cnv_pc = "solr"
    /\ cnv_order[1] # 1
    /\ cnv_order[Len(solrfield_map)] # Len(solrfield_map)
    /\ cnv_solr[2].id = cnv_in.bib.fixedfields.record_id
    /\ cnv_untbib[2].contributors = <<[name |-> "PLACEHOLDER"]>>
    /\ cnv_solr[2].person_author_facet = "A inverted (1788-1824)"
    /\ cnv_solr[2].callnumbers_display = <<" PS 1 ">>
    /\ cnv_solr[2].callnumbers_normalized = <<"for_sort(PS 1)">>

Fields100 == SelectSeq(cnv_in.bib.marcfields, LAMBDA f : f.tag = "100")

\* C25: a bib with no 100 field converts to a null person_author, and on
\* such an intermediate record the search full-name forms are the empty
\* list and the best-name, display and facet values the empty string; with
\* one or more 100 fields the first in collection order is the one used.
C25_NoAuthorDegradesToDefaults ==
    /\ (cnv_pc \in {"converted", "untbib", "solr"}) =>
          IF Fields100 = <<>>
          THEN cnv_untbib[2].person_author = NoAuthor
          ELSE cnv_untbib[2].person_author = PersonAuthor(Fields100[1])
    /\ (cnv_pc = "solr" /\ cnv_untbib[2].person_author.none) =>
          /\ cnv_solr[2].person_author_search_fullname_forms = <<>>
          /\ cnv_solr[2].person_author_search_bestname = ""
          /\ cnv_solr[2].person_author_display = ""
          /\ cnv_solr[2].person_author_facet = ""

\* a bib with a field but no 100 field, converted to solr
C25_Witness ==
    /\ cnv_pc = "solr"
    /\ cnv_in.bib.marcfields # <<>>
    /\ Fields100 = <<>>
    /\ cnv_untbib[2].person_author = NoAuthor
    /\ cnv_solr[2].person_author_display = ""
    /\ cnv_solr[2].person_author_facet = ""

(***************************************************************************)
(* Claims about default arguments                                          *)
(***************************************************************************)
\* what instance j sees in self.options
OptionsSeen(j) ==
    IF sh_inst[j].constructed THEN sh_dicts[sh_inst[j].options] ELSE EmptyDict

\* what the dict that j's last export_records returned holds
ValsReturned(j) ==
    IF sh_ret[j] # "none" THEN sh_dicts[sh_ret[j]] ELSE EmptyDict

\* C27: exporter instances share no mutable state through default
\* arguments: a construction of one instance (which with the filter
\* 'last_export' writes options['latest_time']) or a call of its
\* export_records never changes the options the other instance sees nor
\* the vals the other instance's export_records returned.
C27_NoSharedMutableDefaults ==
    [][\A j \in Instances :
          sh_actor' # j =>
              /\ OptionsSeen(j)' = OptionsSeen(j)
              /\ ValsReturned(j)' = ValsReturned(j)]_vars

(***************************************************************************)
(* Claims about the compound exporter's prefetch_related                   *)
(***************************************************************************)
\* the paths of one list of one child, prefixed; none for a list left at None
PathsOf(child, which_rel) ==
    {Path(child.rel_prefix, r) : r \in Range(getattr(child, which_rel).rels)}

\* every child's prefetch_related paths and the attached children's
\* select_related paths
ExpectedPrefetchRelated ==
    UNION {PathsOf(rel_children[i], "prefetch_related") : i \in 1..Len(rel_children)}
      \cup UNION {PathsOf(rel_children[i], "select_related") : i \in 2..Len(rel_children)}

\* C29: for every child configuration, also with children whose
\* select_related is left at None, the compound exporter's prefetch_related
\* is the de-duplicated union of every child's prefetch_related paths and
\* the attached children's select_related paths, prefixed per child; it is
\* computed on the first access and every later access returns the cached
\* value without computing again.
C29_PrefetchRelatedCombinedOnce ==
    (rel_accesses > 0) =>
        /\ rel_ret.raised = "none"
        /\ Range(rel_ret.val) = ExpectedPrefetchRelated
        /\ Len(rel_ret.val) = Cardinality(ExpectedPrefetchRelated)
        /\ rel_computed = 1
        /\ rel_cache.set /\ rel_ret.val = rel_cache.val

====
